---- MODULE Spec2Model ----
(***************************************************************************)
(* The idle-progression engine of the bakery game: GameState (the          *)
(* progression model), Recipes (the recipe-scoped operations),             *)
(* OfflineProgress (tick and offline catch-up), SaveManager (the           *)
(* persistence gateway) and the BakeryGame orchestrator's entry points.    *)
(*                                                                         *)
(* Number representation.  The JavaScript numbers of the game are IEEE     *)
(* doubles.  Every currency amount of the model (money, totalMoneyEarned,  *)
(* moneyPerSecond, totalProduction) is an integer count of TENTHS of a     *)
(* currency unit, because the only fractional factor of the code is 0.1    *)
(* (recipe income = currentProduction * level * 0.1); costs and            *)
(* productions are whole units.  Math.ceil(base * Math.pow(m, level)) is   *)
(* computed exactly over the rationals and then corrected in the cases     *)
(* where the double product lands just above an integer (FloatRoundsUp).   *)
(* Time: Date.now() is now * 1000 milliseconds (the clock of the model     *)
(* advances in whole seconds).                                             *)
(***************************************************************************)
EXTENDS Integers, Sequences, FiniteSets, TLC

VARIABLES
    money,            \* GameState.money                       (tenths)
    totalMoneyEarned, \* GameState.totalMoneyEarned            (tenths)
    moneyPerSecond,   \* GameState.moneyPerSecond, the cache   (tenths per second)
    totalBaked,       \* GameState.totalBaked
    recipes,          \* GameState.recipes: id -> mutable fields of the recipe
    upgrades,         \* GameState.upgrades: id -> [level, currentCost]
    autoBakers,       \* GameState.autoBakers
    autoBakerLevel,   \* GameState.autoBakerLevel
    autoBakerCost,    \* GameState.autoBakerCost               (whole units)
    milestones,       \* GameState.milestones: id -> completed
    lastSaveTime,     \* GameState.lastSaveTime                (seconds, see above)
    gameStartTime,    \* GameState.gameStartTime
    slot,             \* localStorage[SAVE_KEY]: NoSave or the stored save record
    now,              \* Date.now()
    op,               \* the operation that ran last and its argument
    ret,              \* what that operation returned
    calls             \* how many operations have been invoked so far

model == <<money, totalMoneyEarned, moneyPerSecond, totalBaked, recipes, upgrades,
           autoBakers, autoBakerLevel, autoBakerCost, milestones, lastSaveTime,
           gameStartTime>>
vars == <<money, totalMoneyEarned, moneyPerSecond, totalBaked, recipes, upgrades,
          autoBakers, autoBakerLevel, autoBakerCost, milestones, lastSaveTime,
          gameStartTime, slot, now, op, ret, calls>>

----------------------------------------------------------------------------
(* Bounds of the model *)

\* The specifications explore every sequence of at most this many operations.
MaxCalls == 5
\* ... on states whose totalMoneyEarned stays within this many units (which
\* keeps every product of the model within TLC's integers).
MaxEarned == 4000000

----------------------------------------------------------------------------
(* Program constants *)

\* One currency unit in the model's tenths: the 0.1 of the recipe income.
Scale == 10
AUTO_BAKER_RATE == 5
MILESTONE_BONUS == 50
MAX_OFFLINE_TIME == 604800
START_MONEY == 10
START_AUTO_BAKER_COST == 50
CURRENT_VERSION == 1

RecipeIds == {"cookie", "brownie", "croissant", "cake", "donut"}
UpgradeIds == {"betterOven", "moreShelves", "marketingCampaign"}
MilestoneIds == {"firstBake", "hundredBakes", "thousandDollars", "allRecipesUnlocked"}

\* A falsy argument (null, undefined) and a truthy one that is no recipe of the map.
Null == "null"
Unknown == "unknown"
\* An empty slot (getItem gives null) and the null that load returns for it
NoSave == <<>>
NoState == <<>>
\* The undefined that reading a missing property gives
Undefined == <<"undefined">>
\* A stored or imported text is the sequence of the <<key, value>> members of
\* its JSON object; a member with this key stands for a place where the text
\* is not JSON, at which JSON.parse throws.
SyntaxError == "<syntax error>"

BaseProduction ==
    [cookie |-> 1, brownie |-> 2, croissant |-> 5, cake |-> 15, donut |-> 3]
InitialUpgradeCost ==
    [cookie |-> 10, brownie |-> 30, croissant |-> 75, cake |-> 200, donut |-> 40]
BaseCost == [betterOven |-> 100, moreShelves |-> 150, marketingCampaign |-> 200]
UpgradeMaxLevel == [betterOven |-> 10, moreShelves |-> 10, marketingCampaign |-> 5]
UpgradeType ==
    [betterOven |-> "production", moreShelves |-> "capacity",
     marketingCampaign |-> "reputation"]
\* bonus as a fraction <<numerator, denominator>>: 1.05, 1.10, 1.20
UpgradeBonus ==
    [betterOven |-> <<21, 20>>, moreShelves |-> <<11, 10>>,
     marketingCampaign |-> <<6, 5>>]

----------------------------------------------------------------------------
(* Arithmetic *)

\* Math.ceil and Math.floor of the non-negative rational a / b
CeilDiv(a, b) == (a + b - 1) \div b
FloorDiv(a, b) == a \div b

Min(a, b) == IF a < b THEN a ELSE b

\* <<base, num, den, level>> for which the double base * Math.pow(num/den, level)
\* is an integer in exact arithmetic but lands just above it in IEEE doubles
\* (100 * 1.1 = 110.00000000000001, 100 * 1.1^2 = 121.00000000000001,
\*  200 * 1.1 = 220.00000000000003, 200 * 1.1^2 = 242.00000000000003).
FloatRoundsUp ==
    {<<100, 11, 10, 1>>, <<100, 11, 10, 2>>, <<200, 11, 10, 1>>, <<200, 11, 10, 2>>}

\* The powers of the game's multipliers at the upgrades' highest levels
\* (1.05^10 has twenty decimal places) are beyond TLC's integers, so the
\* product base * (num / den)^level is computed on a natural number held as
\* the sequence of its decimal digits, least significant first.

\* ds * m + carry
RECURSIVE TimesDigits(_, _, _)
TimesDigits(ds, m, carry) ==
    IF ds = <<>>
    THEN IF carry = 0 THEN <<>>
         ELSE <<carry % 10>> \o TimesDigits(<<>>, m, carry \div 10)
    ELSE LET v == Head(ds) * m + carry
         IN <<v % 10>> \o TimesDigits(Tail(ds), m, v \div 10)

\* ds * m^level
RECURSIVE PowDigits(_, _, _)
PowDigits(ds, m, level) ==
    IF level = 0 THEN ds ELSE PowDigits(TimesDigits(ds, m, 0), m, level - 1)

\* The number a digit sequence holds
RECURSIVE DigitsValue(_)
DigitsValue(ds) == IF ds = <<>> THEN 0 ELSE Head(ds) + 10 * DigitsValue(Tail(ds))

\* Math.ceil(base * Math.pow(num / den, level)), for a multiplier num / den
\* that is a number of hundredths (1.05, 1.1, 1.15, 1.2): base * hundredths^level
\* has 2 * level decimal places, and the ceiling is its integer part, plus one
\* when a decimal place is not zero.
CeilPow(base, num, den, level) ==
    LET hundredths == num * (100 \div den)
        ds == PowDigits(TimesDigits(<<>>, 1, base), hundredths, level)
        places == Min(2 * level, Len(ds))
        whole == DigitsValue(SubSeq(ds, places + 1, Len(ds)))
    IN whole
        + (IF \E i \in 1..places : ds[i] # 0 THEN 1 ELSE 0)
        + (IF <<base, num, den, level>> \in FloatRoundsUp THEN 1 ELSE 0)

\* The 15% rise rounded down instead of up
InflateFloor(c) == FloorDiv(c * 23, 20)

\* Math.ceil(c * 1.15)
Inflate(c) == CeilDiv(c * 23, 20)

RECURSIVE SumOver(_, _)
SumOver(S, f) ==
    IF S = {} THEN 0
    ELSE LET x == CHOOSE y \in S : TRUE IN f[x] + SumOver(S \ {x}, f)

----------------------------------------------------------------------------
(* GameState *)

InitialRecipes ==
    [r \in RecipeIds |->
        [unlocked |-> (r = "cookie"), level |-> 0,
         currentProduction |-> BaseProduction[r], bakeCount |-> 0,
         totalProduction |-> 0, upgradeCost |-> InitialUpgradeCost[r]]]
InitialUpgrades ==
    [u \in UpgradeIds |-> [level |-> 0, currentCost |-> BaseCost[u]]]
InitialMilestones == [m \in MilestoneIds |-> FALSE]

\* The passive income of a recipe map, in tenths per second:
\* sum over unlocked recipes with level > 0 of currentProduction * level * 0.1
RecipeIncome(rs) ==
    SumOver(RecipeIds,
            [r \in RecipeIds |->
                IF rs[r].unlocked /\ rs[r].level > 0
                THEN rs[r].currentProduction * rs[r].level ELSE 0])

\* A recalculation that counts the bakers and forgets the recipes
ProductionBakersOnly(ab, rs) == ab * AUTO_BAKER_RATE * Scale

\* The value recalculateMoneyPerSecond stores
Production(ab, rs) == ab * AUTO_BAKER_RATE * Scale + RecipeIncome(rs)

\* A completion that pays its bonus to money only
CompleteMilestoneMoneyOnly(s, id) ==
    [money |-> s.money + MILESTONE_BONUS * Scale,
     totalMoneyEarned |-> s.totalMoneyEarned,
     milestones |-> [s.milestones EXCEPT ![id] = TRUE]]

\* completeMilestone on the triple the milestone check threads through
CompleteMilestone(s, id) ==
    [money |-> s.money + MILESTONE_BONUS * Scale,
     totalMoneyEarned |-> s.totalMoneyEarned + MILESTONE_BONUS * Scale,
     milestones |-> [s.milestones EXCEPT ![id] = TRUE]]

\* A milestone check that does not test `completed`, so that a met threshold
\* pays its bonus at every bake
CheckMilestonesRepeating(m, t, b, ms) ==
    LET s0 == [money |-> m, totalMoneyEarned |-> t, milestones |-> ms]
        s1 == IF b >= 1 THEN CompleteMilestone(s0, "firstBake") ELSE s0
        s2 == IF b >= 100 THEN CompleteMilestone(s1, "hundredBakes") ELSE s1
        s3 == IF s2.totalMoneyEarned >= 1000 * Scale
              THEN CompleteMilestone(s2, "thousandDollars") ELSE s2
    IN s3

\* A milestone check that tests the money earned before the bakes
CheckMilestonesDollarsFirst(m, t, b, ms) ==
    LET s0 == [money |-> m, totalMoneyEarned |-> t, milestones |-> ms]
        s1 == IF s0.totalMoneyEarned >= 1000 * Scale /\ ~s0.milestones["thousandDollars"]
              THEN CompleteMilestone(s0, "thousandDollars") ELSE s0
        s2 == IF b >= 1 /\ ~s1.milestones["firstBake"]
              THEN CompleteMilestone(s1, "firstBake") ELSE s1
        s3 == IF b >= 100 /\ ~s2.milestones["hundredBakes"]
              THEN CompleteMilestone(s2, "hundredBakes") ELSE s2
    IN s3

\* checkMilestones: the three threshold tests in the order of the code, each on
\* the state the previous one left.
CheckMilestones(m, t, b, ms) ==
    LET s0 == [money |-> m, totalMoneyEarned |-> t, milestones |-> ms]
        s1 == IF b >= 1 /\ ~s0.milestones["firstBake"]
              THEN CompleteMilestone(s0, "firstBake") ELSE s0
        s2 == IF b >= 100 /\ ~s1.milestones["hundredBakes"]
              THEN CompleteMilestone(s1, "hundredBakes") ELSE s1
        s3 == IF s2.totalMoneyEarned >= 1000 * Scale /\ ~s2.milestones["thousandDollars"]
              THEN CompleteMilestone(s2, "thousandDollars") ELSE s2
    IN s3

\* Every operation starts by being invoked: the invocation is recorded and
\* counted, and the model follows a session for MaxCalls invocations.
Invoke(name, arg) ==
    /\ calls < MaxCalls
    /\ calls' = calls + 1
    /\ op' = [name |-> name, arg |-> arg]

Init ==
    /\ money = START_MONEY * Scale
    /\ totalMoneyEarned = START_MONEY * Scale
    /\ moneyPerSecond = 0
    /\ totalBaked = 0
    /\ recipes = InitialRecipes
    /\ upgrades = InitialUpgrades
    /\ autoBakers = 0
    /\ autoBakerLevel = 0
    /\ autoBakerCost = START_AUTO_BAKER_COST
    /\ milestones = InitialMilestones
    /\ lastSaveTime = 0
    /\ gameStartTime = 0
    /\ slot = NoSave
    /\ now = 0
    /\ op = [name |-> "initialize", arg |-> Null]
    /\ ret = TRUE
    /\ calls = 0

\* A bake that takes the cookie for whatever is no recipe of the map
BakeTargetAlwaysCookie(a) == IF a \notin RecipeIds THEN "cookie" ELSE a

\* The recipe object GameState.bake works on: a falsy argument is replaced by
\* the cookie; a truthy value that is no recipe has no `unlocked` property.
BakeTarget(a) == IF a = Null THEN "cookie" ELSE a

\* A bake that forgets the lock and refuses only what is no recipe
BakeRefusedOnlyAbsent(r) == r \notin RecipeIds

\* `!recipe.unlocked`: the recipe is locked, or the value has no such property
BakeRefused(r) == r \notin RecipeIds \/ ~recipes[r].unlocked

\* A bake whose milestone check also completes allRecipesUnlocked, once every
\* recipe is unlocked
BakeCheckingEveryMilestone(a) ==
    LET r == BakeTarget(a) IN
    /\ Invoke("bake", a)
    /\ IF BakeRefused(r)
       THEN /\ ret' = FALSE
            /\ UNCHANGED <<model, slot, now>>
       ELSE LET earnings == recipes[r].currentProduction * Scale
                s == CheckMilestones(money + earnings, totalMoneyEarned + earnings,
                                     totalBaked + 1, milestones)
                every == IF /\ \A x \in RecipeIds : recipes[x].unlocked
                            /\ ~s.milestones["allRecipesUnlocked"]
                         THEN CompleteMilestone(s, "allRecipesUnlocked") ELSE s
            IN /\ money' = every.money
               /\ totalMoneyEarned' = every.totalMoneyEarned
               /\ milestones' = every.milestones
               /\ totalBaked' = totalBaked + 1
               /\ recipes' = [recipes EXCEPT
                      ![r].bakeCount = @ + 1,
                      ![r].totalProduction = @ + earnings]
               /\ ret' = TRUE
               /\ UNCHANGED <<moneyPerSecond, upgrades, autoBakers, autoBakerLevel,
                              autoBakerCost, lastSaveTime, gameStartTime, slot, now>>

\* GameState.bake(recipe)
Bake(a) ==
    LET r == BakeTarget(a) IN
    /\ Invoke("bake", a)
    /\ IF BakeRefused(r)
       THEN /\ ret' = FALSE
            /\ UNCHANGED <<model, slot, now>>
       ELSE LET earnings == recipes[r].currentProduction * Scale
                s == CheckMilestones(money + earnings, totalMoneyEarned + earnings,
                                     totalBaked + 1, milestones)
            IN /\ money' = s.money
               /\ totalMoneyEarned' = s.totalMoneyEarned
               /\ milestones' = s.milestones
               /\ totalBaked' = totalBaked + 1
               /\ recipes' = [recipes EXCEPT
                      ![r].bakeCount = @ + 1,
                      ![r].totalProduction = @ + earnings]
               /\ ret' = TRUE
               /\ UNCHANGED <<moneyPerSecond, upgrades, autoBakers, autoBakerLevel,
                              autoBakerCost, lastSaveTime, gameStartTime, slot, now>>

\* Recipes.bakeRecipe(gameState, recipeId): the recipe-scoped bake, which looks
\* the recipe up by id and evaluates no milestone.
BakeRecipe(id) ==
    /\ Invoke("bakeRecipe", id)
    /\ IF BakeRefused(id)
       THEN /\ ret' = FALSE
            /\ UNCHANGED <<model, slot, now>>
       ELSE LET earnings == recipes[id].currentProduction * Scale
            IN /\ money' = money + earnings
               /\ totalMoneyEarned' = totalMoneyEarned + earnings
               /\ totalBaked' = totalBaked + 1
               /\ recipes' = [recipes EXCEPT
                      ![id].bakeCount = @ + 1,
                      ![id].totalProduction = @ + earnings]
               /\ ret' = TRUE
               /\ UNCHANGED <<moneyPerSecond, upgrades, autoBakers, autoBakerLevel,
                              autoBakerCost, milestones, lastSaveTime, gameStartTime,
                              slot, now>>

\* The unlock rules of BakeryGame.checkRecipeUnlocks: <<bakes, money>>
UnlockRules ==
    [brownie |-> <<20, 50>>, croissant |-> <<50, 150>>, cake |-> <<100, 500>>,
     donut |-> <<30, 75>>]

\* GameState.unlockRecipe(recipeId) on a recipe map
UnlockRecipe(rs, id) ==
    IF id \in RecipeIds THEN [rs EXCEPT ![id].unlocked = TRUE] ELSE rs

\* An unlock check that looks at the number of bakes only
CheckRecipeUnlocksByBakes(rs, b, m) ==
    [r \in RecipeIds |->
        IF /\ r \in DOMAIN UnlockRules
           /\ ~rs[r].unlocked
           /\ b >= UnlockRules[r][1]
        THEN UnlockRecipe(rs, r)[r] ELSE rs[r]]

\* BakeryGame.checkRecipeUnlocks on a recipe map, for totalBaked b and money m:
\* no unlock changes b or m, so the loop's tests are independent of its order.
CheckRecipeUnlocks(rs, b, m) ==
    [r \in RecipeIds |->
        IF /\ r \in DOMAIN UnlockRules
           /\ ~rs[r].unlocked
           /\ b >= UnlockRules[r][1]
           /\ m >= UnlockRules[r][2] * Scale
        THEN UnlockRecipe(rs, r)[r] ELSE rs[r]]

\* GameState.unlockRecipe(recipeId), called directly
CallUnlockRecipe(id) ==
    /\ Invoke("unlockRecipe", id)
    /\ recipes' = UnlockRecipe(recipes, id)
    /\ ret' = Null
    /\ UNCHANGED <<money, totalMoneyEarned, moneyPerSecond, totalBaked, upgrades,
                   autoBakers, autoBakerLevel, autoBakerCost, milestones, lastSaveTime,
                   gameStartTime, slot, now>>

\* BakeryGame.handleBake: currentRecipe is never assigned, so the recipe is the
\* cookie; a successful bake is followed by checkRecipeUnlocks.
HandleBake ==
    /\ Invoke("handleBake", Null)
    /\ IF BakeRefused("cookie")
       THEN /\ ret' = FALSE
            /\ UNCHANGED <<model, slot, now>>
       ELSE LET earnings == recipes["cookie"].currentProduction * Scale
                s == CheckMilestones(money + earnings, totalMoneyEarned + earnings,
                                     totalBaked + 1, milestones)
                baked == [recipes EXCEPT
                             !["cookie"].bakeCount = @ + 1,
                             !["cookie"].totalProduction = @ + earnings]
            IN /\ money' = s.money
               /\ totalMoneyEarned' = s.totalMoneyEarned
               /\ milestones' = s.milestones
               /\ totalBaked' = totalBaked + 1
               /\ recipes' = CheckRecipeUnlocks(baked, totalBaked + 1, s.money)
               /\ ret' = TRUE
               /\ UNCHANGED <<moneyPerSecond, upgrades, autoBakers, autoBakerLevel,
                              autoBakerCost, lastSaveTime, gameStartTime, slot, now>>

\* A purchase that does not look at the money
AffordabilityUnchecked(m, cost) == TRUE

\* The affordability test of every purchase: `money < cost` refuses.
CanAfford(m, cost) == ~(m < cost * Scale)

\* A production upgrade that multiplies the production the recipe has now,
\* instead of recomputing it from the base
ApplyUpgradeBonusCompounding(rs, u, lv) ==
    IF UpgradeType[u] = "production"
    THEN [r \in RecipeIds |->
            [rs[r] EXCEPT !.currentProduction =
                CeilDiv(@ * UpgradeBonus[u][1], UpgradeBonus[u][2])]]
    ELSE rs

\* A production upgrade that passes over the locked recipes
ApplyUpgradeBonusUnlockedOnly(rs, u, lv) ==
    IF UpgradeType[u] = "production"
    THEN [r \in RecipeIds |->
            IF rs[r].unlocked
            THEN [rs[r] EXCEPT !.currentProduction =
                     CeilPow(BaseProduction[r], UpgradeBonus[u][1],
                             UpgradeBonus[u][2], lv)]
            ELSE rs[r]]
    ELSE rs

\* An upgrade bonus that every type of upgrade applies to the productions
ApplyUpgradeBonusOfEveryType(rs, u, lv) ==
    [r \in RecipeIds |->
        [rs[r] EXCEPT !.currentProduction =
            CeilPow(BaseProduction[r], UpgradeBonus[u][1], UpgradeBonus[u][2], lv)]]

\* applyUpgradeBonus: a production upgrade at level lv rewrites every recipe's
\* currentProduction from its baseProduction; the other types change nothing.
ApplyUpgradeBonus(rs, u, lv) ==
    IF UpgradeType[u] = "production"
    THEN [r \in RecipeIds |->
            [rs[r] EXCEPT !.currentProduction =
                CeilPow(BaseProduction[r], UpgradeBonus[u][1], UpgradeBonus[u][2], lv)]]
    ELSE rs

\* A purchase that raises the upgrade's cost first and debits the new cost
PurchaseEffectDebitsNewCost(u) ==
    LET lv == upgrades[u].level + 1 IN
    /\ money' = money - CeilPow(BaseCost[u], 11, 10, lv) * Scale
    /\ upgrades' = [upgrades EXCEPT
           ![u] = [level |-> lv, currentCost |-> CeilPow(BaseCost[u], 11, 10, lv)]]
    /\ recipes' = ApplyUpgradeBonus(recipes, u, lv)

\* The state change of a successful GameState.purchaseUpgrade(u), but for the cache
PurchaseEffect(u) ==
    LET lv == upgrades[u].level + 1 IN
    /\ money' = money - upgrades[u].currentCost * Scale
    /\ upgrades' = [upgrades EXCEPT
           ![u] = [level |-> lv, currentCost |-> CeilPow(BaseCost[u], 11, 10, lv)]]
    /\ recipes' = ApplyUpgradeBonus(recipes, u, lv)

\* A purchase that does not look at the upgrade's maxLevel
PurchaseRefusedBelowMaxOnly(u) ==
    \/ u \notin UpgradeIds
    \/ ~CanAfford(money, upgrades[u].currentCost)

\* The validation of purchaseUpgrade: the upgrade is absent, at its maxLevel or
\* too dear.
PurchaseRefused(u) ==
    \/ u \notin UpgradeIds
    \/ upgrades[u].level >= UpgradeMaxLevel[u]
    \/ ~CanAfford(money, upgrades[u].currentCost)

\* GameState.purchaseUpgrade(upgradeId)
PurchaseUpgrade(u) ==
    /\ Invoke("purchaseUpgrade", u)
    /\ IF PurchaseRefused(u)
       THEN /\ ret' = FALSE
            /\ UNCHANGED <<model, slot, now>>
       ELSE /\ PurchaseEffect(u)
            /\ ret' = TRUE
            /\ UNCHANGED <<totalMoneyEarned, moneyPerSecond, totalBaked, autoBakers,
                           autoBakerLevel, autoBakerCost, milestones, lastSaveTime,
                           gameStartTime, slot, now>>

\* BakeryGame.purchaseUpgrade(upgradeId): the purchase, then on success
\* recalculateMoneyPerSecond.
GamePurchaseUpgrade(u) ==
    /\ Invoke("game.purchaseUpgrade", u)
    /\ IF PurchaseRefused(u)
       THEN /\ ret' = FALSE
            /\ UNCHANGED <<model, slot, now>>
       ELSE /\ PurchaseEffect(u)
            /\ moneyPerSecond' = Production(autoBakers, recipes')
            /\ ret' = TRUE
            /\ UNCHANGED <<totalMoneyEarned, totalBaked, autoBakers, autoBakerLevel,
                           autoBakerCost, milestones, lastSaveTime, gameStartTime,
                           slot, now>>

\* An upgrade that raises the production the recipe has now by 20%, instead
\* of recomputing it from the base
UpgradeRecipeCompounding(id) ==
    /\ Invoke("upgradeRecipe", id)
    /\ IF \/ id \notin RecipeIds
          \/ ~recipes[id].unlocked
          \/ ~CanAfford(money, recipes[id].upgradeCost)
       THEN /\ ret' = FALSE
            /\ UNCHANGED <<model, slot, now>>
       ELSE /\ money' = money - recipes[id].upgradeCost * Scale
            /\ recipes' = [recipes EXCEPT
                   ![id].level = @ + 1,
                   ![id].currentProduction = CeilDiv(@ * 6, 5),
                   ![id].upgradeCost = Inflate(@)]
            /\ ret' = TRUE
            /\ UNCHANGED <<totalMoneyEarned, moneyPerSecond, totalBaked, upgrades,
                           autoBakers, autoBakerLevel, autoBakerCost, milestones,
                           lastSaveTime, gameStartTime, slot, now>>

\* Recipes.upgradeRecipe(gameState, recipeId)
UpgradeRecipe(id) ==
    /\ Invoke("upgradeRecipe", id)
    /\ IF \/ id \notin RecipeIds
          \/ ~recipes[id].unlocked
          \/ ~CanAfford(money, recipes[id].upgradeCost)
       THEN /\ ret' = FALSE
            /\ UNCHANGED <<model, slot, now>>
       ELSE /\ money' = money - recipes[id].upgradeCost * Scale
            /\ recipes' = [recipes EXCEPT
                   ![id].level = @ + 1,
                   ![id].currentProduction =
                       CeilPow(BaseProduction[id], 6, 5, recipes[id].level + 1),
                   ![id].upgradeCost = Inflate(@)]
            /\ ret' = TRUE
            /\ UNCHANGED <<totalMoneyEarned, moneyPerSecond, totalBaked, upgrades,
                           autoBakers, autoBakerLevel, autoBakerCost, milestones,
                           lastSaveTime, gameStartTime, slot, now>>

\* A hire that forgets autoBakerLevel
HireAutoBakerKeepsLevel ==
    /\ Invoke("hireAutoBaker", Null)
    /\ IF ~CanAfford(money, autoBakerCost)
       THEN /\ ret' = FALSE
            /\ UNCHANGED <<model, slot, now>>
       ELSE /\ money' = money - autoBakerCost * Scale
            /\ autoBakers' = autoBakers + 1
            /\ autoBakerCost' = Inflate(autoBakerCost)
            /\ moneyPerSecond' = Production(autoBakers + 1, recipes)
            /\ ret' = TRUE
            /\ UNCHANGED <<totalMoneyEarned, totalBaked, recipes, upgrades, milestones,
                           autoBakerLevel, lastSaveTime, gameStartTime, slot, now>>

\* GameState.hireAutoBaker(), which ends with recalculateMoneyPerSecond();
\* BakeryGame.hireAutoBaker() recalculates once more, to the same value.
HireAutoBaker ==
    /\ Invoke("hireAutoBaker", Null)
    /\ IF ~CanAfford(money, autoBakerCost)
       THEN /\ ret' = FALSE
            /\ UNCHANGED <<model, slot, now>>
       ELSE /\ money' = money - autoBakerCost * Scale
            /\ autoBakers' = autoBakers + 1
            /\ autoBakerLevel' = autoBakerLevel + 1
            /\ autoBakerCost' = Inflate(autoBakerCost)
            /\ moneyPerSecond' = Production(autoBakers + 1, recipes)
            /\ ret' = TRUE
            /\ UNCHANGED <<totalMoneyEarned, totalBaked, recipes, upgrades, milestones,
                           lastSaveTime, gameStartTime, slot, now>>

\* GameState.recalculateMoneyPerSecond()
RecalculateMoneyPerSecond ==
    /\ Invoke("recalculateMoneyPerSecond", Null)
    /\ moneyPerSecond' = Production(autoBakers, recipes)
    /\ ret' = Null
    /\ UNCHANGED <<money, totalMoneyEarned, totalBaked, recipes, upgrades, autoBakers,
                   autoBakerLevel, autoBakerCost, milestones, lastSaveTime,
                   gameStartTime, slot, now>>

\* A tick that also pays the recipes' tracked income into money
TickPaysRecipesTwice ==
    LET passiveIncome == moneyPerSecond
        tracked == RecipeIncome(recipes)
    IN
    /\ Invoke("tick", Null)
    /\ now' = now + 1
    /\ IF passiveIncome > 0
       THEN /\ money' = money + passiveIncome + tracked
            /\ totalMoneyEarned' = totalMoneyEarned + passiveIncome + tracked
            /\ recipes' = [r \in RecipeIds |->
                  IF recipes[r].unlocked /\ recipes[r].level > 0
                  THEN [recipes[r] EXCEPT !.totalProduction =
                           @ + recipes[r].currentProduction * recipes[r].level]
                  ELSE recipes[r]]
       ELSE UNCHANGED <<money, totalMoneyEarned, recipes>>
    /\ ret' = [incomeThisTick |-> passiveIncome, totalMoney |-> money']
    /\ UNCHANGED <<moneyPerSecond, totalBaked, upgrades, autoBakers, autoBakerLevel,
                   autoBakerCost, milestones, lastSaveTime, gameStartTime, slot>>

\* OfflineProgress.tick(gameState), as the callback of startGameLoop's
\* setInterval(..., TICK_RATE): it runs when one more second of the clock has passed.
Tick ==
    LET passiveIncome == moneyPerSecond IN
    /\ Invoke("tick", Null)
    /\ now' = now + 1
    /\ IF passiveIncome > 0
       THEN /\ money' = money + passiveIncome
            /\ totalMoneyEarned' = totalMoneyEarned + passiveIncome
            /\ recipes' = [r \in RecipeIds |->
                  IF recipes[r].unlocked /\ recipes[r].level > 0
                  THEN [recipes[r] EXCEPT !.totalProduction =
                           @ + recipes[r].currentProduction * recipes[r].level]
                  ELSE recipes[r]]
       ELSE UNCHANGED <<money, totalMoneyEarned, recipes>>
    /\ ret' = [incomeThisTick |-> passiveIncome, totalMoney |-> money']
    /\ UNCHANGED <<moneyPerSecond, totalBaked, upgrades, autoBakers, autoBakerLevel,
                   autoBakerCost, milestones, lastSaveTime, gameStartTime, slot>>

\* Offline earnings over the whole time away, without the cap
CalculateOfflineEarningsUncapped(ab, rs, n, d) ==
    LET autoBakerIncome == ab * AUTO_BAKER_RATE
        totalIncome == autoBakerIncome * Scale + RecipeIncome(rs)
    IN [earnings |-> FloorDiv(totalIncome * n, Scale * d),
        autoBakerIncome |-> autoBakerIncome]

\* Offline earnings rounded up to the next whole unit
CalculateOfflineEarningsRoundedUp(ab, rs, n, d) ==
    LET autoBakerIncome == ab * AUTO_BAKER_RATE
        totalIncome == autoBakerIncome * Scale + RecipeIncome(rs)
        cappedN == Min(n, MAX_OFFLINE_TIME * d)
    IN [earnings |-> CeilDiv(totalIncome * cappedN, Scale * d),
        autoBakerIncome |-> autoBakerIncome]

\* OfflineProgress.calculateOfflineEarnings(gameState, n / d seconds):
\* earnings in whole units, and the auto-baker income in units per second.
CalculateOfflineEarnings(ab, rs, n, d) ==
    LET autoBakerIncome == ab * AUTO_BAKER_RATE
        totalIncome == autoBakerIncome * Scale + RecipeIncome(rs)
        cappedN == Min(n, MAX_OFFLINE_TIME * d)
    IN [earnings |-> FloorDiv(totalIncome * cappedN, Scale * d),
        autoBakerIncome |-> autoBakerIncome]

\* Math.floor(autoBakerIncome * secondsOffline / 5), on the uncapped n / d seconds
ItemsBaked(autoBakerIncome, n, d) ==
    IF autoBakerIncome > 0 THEN FloorDiv(autoBakerIncome * n, 5 * d) ELSE 0

\* An offline credit that assigns the earnings to totalMoneyEarned (= for +=)
OfflineCreditAssigning(n, d) ==
    LET e == CalculateOfflineEarnings(autoBakers, recipes, n, d)
        itemsBaked == ItemsBaked(e.autoBakerIncome, n, d)
    IN /\ e.earnings <= MaxEarned
       /\ money' = money + e.earnings * Scale
       /\ totalMoneyEarned' = e.earnings * Scale
       /\ totalBaked' = totalBaked + itemsBaked
       /\ ret' = [moneyGained |-> e.earnings, itemsBaked |-> itemsBaked]

\* An offline credit that goes to money alone
OfflineCreditToMoneyOnly(n, d) ==
    LET e == CalculateOfflineEarnings(autoBakers, recipes, n, d)
        itemsBaked == ItemsBaked(e.autoBakerIncome, n, d)
    IN /\ totalMoneyEarned \div Scale + e.earnings <= MaxEarned
       /\ money' = money + e.earnings * Scale
       /\ totalMoneyEarned' = totalMoneyEarned
       /\ totalBaked' = totalBaked + itemsBaked
       /\ ret' = [moneyGained |-> e.earnings, itemsBaked |-> itemsBaked]

\* The credit of applyOfflineProgress for n / d > 0 seconds
OfflineCredit(n, d) ==
    LET e == CalculateOfflineEarnings(autoBakers, recipes, n, d)
        itemsBaked == ItemsBaked(e.autoBakerIncome, n, d)
    IN /\ totalMoneyEarned \div Scale + e.earnings <= MaxEarned
       /\ money' = money + e.earnings * Scale
       /\ totalMoneyEarned' = totalMoneyEarned + e.earnings * Scale
       /\ totalBaked' = totalBaked + itemsBaked
       /\ ret' = [moneyGained |-> e.earnings, itemsBaked |-> itemsBaked]

\* A catch-up that turns back only a time of exactly 0
ApplyOfflineProgressZeroOnly(n, d) ==
    /\ Invoke("applyOfflineProgress", <<n, d>>)
    /\ IF n = 0
       THEN /\ ret' = [moneyGained |-> 0, itemsBaked |-> 0]
            /\ UNCHANGED <<money, totalMoneyEarned, totalBaked>>
       ELSE OfflineCredit(n, d)
    /\ UNCHANGED <<moneyPerSecond, recipes, upgrades, autoBakers, autoBakerLevel,
                   autoBakerCost, milestones, lastSaveTime, gameStartTime, slot, now>>

\* A catch-up that runs the milestone check on what it credited
ApplyOfflineProgressCheckingMilestones(n, d) ==
    /\ Invoke("applyOfflineProgress", <<n, d>>)
    /\ IF n <= 0
       THEN /\ ret' = [moneyGained |-> 0, itemsBaked |-> 0]
            /\ UNCHANGED <<money, totalMoneyEarned, totalBaked, milestones>>
       ELSE LET e == CalculateOfflineEarnings(autoBakers, recipes, n, d)
                itemsBaked == ItemsBaked(e.autoBakerIncome, n, d)
                s == CheckMilestones(money + e.earnings * Scale,
                                     totalMoneyEarned + e.earnings * Scale,
                                     totalBaked + itemsBaked, milestones)
            IN /\ totalMoneyEarned \div Scale + e.earnings <= MaxEarned
               /\ money' = s.money
               /\ totalMoneyEarned' = s.totalMoneyEarned
               /\ totalBaked' = totalBaked + itemsBaked
               /\ milestones' = s.milestones
               /\ ret' = [moneyGained |-> e.earnings, itemsBaked |-> itemsBaked]
    /\ UNCHANGED <<moneyPerSecond, recipes, upgrades, autoBakers, autoBakerLevel,
                   autoBakerCost, lastSaveTime, gameStartTime, slot, now>>

\* OfflineProgress.applyOfflineProgress(gameState, secondsOffline), with
\* secondsOffline = n / d
ApplyOfflineProgress(n, d) ==
    /\ Invoke("applyOfflineProgress", <<n, d>>)
    /\ IF n <= 0
       THEN /\ ret' = [moneyGained |-> 0, itemsBaked |-> 0]
            /\ UNCHANGED <<money, totalMoneyEarned, totalBaked>>
       ELSE OfflineCredit(n, d)
    /\ UNCHANGED <<moneyPerSecond, recipes, upgrades, autoBakers, autoBakerLevel,
                   autoBakerCost, milestones, lastSaveTime, gameStartTime, slot, now>>

\* The seconds the offline catch-up is called with, as fractions <<n, d>>
OfflineSeconds ==
    {<<-1, 1>>, <<0, 1>>, <<1, 2>>, <<60, 1>>, <<604800, 1>>, <<604801, 1>>}

----------------------------------------------------------------------------
(* SaveManager and the session lifecycle *)

\* The GameState object as a record of the fields the model follows.  The
\* fields no operation ever assigns (currentRecipe, reputation, customersServed,
\* customerSatisfaction, level, experience, lastPlayTime, totalPlayTime) are
\* left out of the model.
GameStateRecord ==
    [money |-> money, totalMoneyEarned |-> totalMoneyEarned,
     moneyPerSecond |-> moneyPerSecond, totalBaked |-> totalBaked,
     recipes |-> recipes, autoBakers |-> autoBakers,
     autoBakerLevel |-> autoBakerLevel, autoBakerCost |-> autoBakerCost,
     upgrades |-> upgrades, milestones |-> milestones,
     lastSaveTime |-> lastSaveTime, gameStartTime |-> gameStartTime]

\* The GameState object when its module has just been evaluated at time t: the
\* literal's defaults, then GameState.initialize() (run on load).
FreshGameState(t) ==
    [money |-> START_MONEY * Scale, totalMoneyEarned |-> START_MONEY * Scale,
     moneyPerSecond |-> 0, totalBaked |-> 0, recipes |-> InitialRecipes,
     autoBakers |-> 0, autoBakerLevel |-> 0,
     autoBakerCost |-> START_AUTO_BAKER_COST, upgrades |-> InitialUpgrades,
     milestones |-> InitialMilestones, lastSaveTime |-> t, gameStartTime |-> t]

\* GameState.initialize() on a running model at time t: it assigns money,
\* totalMoneyEarned, the two timestamps and the three maps, and nothing else.
Initialize(gs, t) ==
    [gs EXCEPT !.money = START_MONEY * Scale,
               !.totalMoneyEarned = START_MONEY * Scale,
               !.lastSaveTime = t, !.gameStartTime = t,
               !.recipes = InitialRecipes, !.upgrades = InitialUpgrades,
               !.milestones = InitialMilestones]

\* The model's variables become the fields of gs
Becomes(gs) ==
    /\ money' = gs.money
    /\ totalMoneyEarned' = gs.totalMoneyEarned
    /\ moneyPerSecond' = gs.moneyPerSecond
    /\ totalBaked' = gs.totalBaked
    /\ recipes' = gs.recipes
    /\ autoBakers' = gs.autoBakers
    /\ autoBakerLevel' = gs.autoBakerLevel
    /\ autoBakerCost' = gs.autoBakerCost
    /\ upgrades' = gs.upgrades
    /\ milestones' = gs.milestones
    /\ lastSaveTime' = gs.lastSaveTime
    /\ gameStartTime' = gs.gameStartTime

\* The keys of saveData.state, in the order save writes them
SavedFields ==
    <<"money", "totalMoneyEarned", "moneyPerSecond", "totalBaked", "recipes",
      "autoBakers", "autoBakerLevel", "autoBakerCost", "upgrades", "milestones",
      "lastSaveTime", "gameStartTime">>

\* A save that stores the model's own lastSaveTime
SavedValueAsIs(gs, key, t) == gs[key]

\* The value save stores under a key: the field of the model, but Date.now()
\* for lastSaveTime.
SavedValue(gs, key, t) == IF key = "lastSaveTime" THEN t ELSE gs[key]

\* saveData of SaveManager.save(gameState) at time t
SaveData(gs, t) ==
    [version |-> CURRENT_VERSION, timestamp |-> t,
     state |-> [k \in {SavedFields[i] : i \in 1..Len(SavedFields)} |->
                   SavedValue(gs, k, t)]]

\* JSON.stringify of an object: its members as the sequence of <<key, value>>
\* pairs of the text, in the order given (nested values by the same rule).
StringifyObject(obj, keys) == [i \in 1..Len(keys) |-> <<keys[i], obj[keys[i]]>>]

\* JSON.stringify(saveData)
Stringify(saveData) ==
    <<<<"version", saveData.version>>, <<"timestamp", saveData.timestamp>>,
      <<"state", StringifyObject(saveData.state, SavedFields)>>>>

\* JSON.parse of the members of an object: the object with those keys (of a
\* repeated key the last member counts)
ParseObject(text) ==
    [k \in {text[i][1] : i \in 1..Len(text)} |->
        LET last == CHOOSE i \in 1..Len(text) :
                        /\ text[i][1] = k
                        /\ \A j \in (i + 1)..Len(text) : text[j][1] # k
        IN text[last][2]]

\* JSON.parse throws on the text: one of its members, or of the members of
\* its state, is not JSON
Malformed(text) ==
    \E i \in 1..Len(text) :
        \/ text[i][1] = SyntaxError
        \/ /\ text[i][1] = "state"
           /\ \E j \in 1..Len(text[i][2]) : text[i][2][j][1] = SyntaxError

\* JSON.parse of a text that is JSON
Parse(text) ==
    LET top == ParseObject(text)
    IN IF "state" \in DOMAIN top
       THEN [top EXCEPT !.state = ParseObject(top.state)]
       ELSE top

\* obj.key: the member, or undefined
Property(obj, key) == IF key \in DOMAIN obj THEN obj[key] ELSE Undefined

\* A load that turns down a save of another version
LoadRejectingOtherVersions(stored) ==
    IF stored = NoSave \/ Malformed(stored) THEN NoState
    ELSE IF Property(Parse(stored), "version") # CURRENT_VERSION THEN NoState
    ELSE Property(Parse(stored), "state")

\* SaveManager.load(): null when the slot is empty and when JSON.parse throws
\* (the catch), else parsed.state.  A version other than CURRENT_VERSION only
\* logs a warning.
Load(stored) ==
    IF stored = NoSave \/ Malformed(stored) THEN NoState
    ELSE Property(Parse(stored), "state")

\* A reading of the time since the last save that is left in milliseconds
GetTimeSinceLastSaveInMillis(stored, t) ==
    IF stored = NoSave \/ Malformed(stored) THEN 0
    ELSE LET state == Property(Parse(stored), "state")
         IN IF state = Undefined THEN 0
            ELSE t * 1000 - state.lastSaveTime * 1000

\* SaveManager.getTimeSinceLastSave() at time t: 0 when the slot is empty, 0
\* when JSON.parse throws or there is no parsed.state to read lastSaveTime of
\* (the catch), else (Date.now() - parsed.state.lastSaveTime) / 1000, both in
\* milliseconds, so a number of seconds.  (Every state of the texts followed
\* here has a lastSaveTime.)
GetTimeSinceLastSave(stored, t) ==
    IF stored = NoSave \/ Malformed(stored) THEN 0
    ELSE LET state == Property(Parse(stored), "state")
         IN IF state = Undefined THEN 0
            ELSE (t * 1000 - state.lastSaveTime * 1000) \div 1000

\* SaveManager.restoreState(gameState, savedState): Object.assign, unless
\* savedState is null or undefined
RestoreState(gs, savedState) ==
    IF savedState = NoState \/ savedState = Undefined THEN gs
    ELSE [k \in DOMAIN gs \cup DOMAIN savedState |->
             IF k \in DOMAIN savedState THEN savedState[k] ELSE gs[k]]

\* What becomes of the two writes of a save: localStorage.setItem throws when
\* the store is full or closed, at the write of the slot or at the write of
\* the version marker after it.
WriteOutcomes == {"stored", "slot write throws", "marker write throws"}

\* A save that cuts into a bake: it stores the model with the bake's money
\* credited and the bake not yet counted
SaveCuttingIn ==
    /\ Invoke("save", Null)
    /\ \E w \in WriteOutcomes :
          /\ slot' = IF w = "slot write throws" THEN slot
                     ELSE Stringify(SaveData(
                              [GameStateRecord EXCEPT
                                  !.totalBaked = IF @ > 0 THEN @ - 1 ELSE @], now))
          /\ ret' = (w = "stored")
    /\ UNCHANGED <<model, now>>

\* SaveManager.save(gameState): the autosave timer, the backup timer, the
\* beforeunload handler.  The snapshot is written to the slot, then the
\* version marker (which nothing reads) beside it; a throw of either write is
\* caught and makes the save return false.
Save ==
    /\ Invoke("save", Null)
    /\ \E w \in WriteOutcomes :
          /\ slot' = IF w = "slot write throws" THEN slot
                     ELSE Stringify(SaveData(GameStateRecord, now))
          /\ ret' = (w = "stored")
    /\ UNCHANGED <<model, now>>

\* applyOfflineProgress on a GameState record, for n / d seconds
OfflineApplied(gs, n, d) ==
    IF n <= 0 THEN gs
    ELSE LET e == CalculateOfflineEarnings(gs.autoBakers, gs.recipes, n, d)
         IN [gs EXCEPT !.money = @ + e.earnings * Scale,
                       !.totalMoneyEarned = @ + e.earnings * Scale,
                       !.totalBaked = @ + ItemsBaked(e.autoBakerIncome, n, d)]

\* OfflineProgress.tick on a GameState record
Ticked(gs) ==
    LET passiveIncome == gs.moneyPerSecond IN
    IF passiveIncome > 0
    THEN [gs EXCEPT
            !.money = @ + passiveIncome,
            !.totalMoneyEarned = @ + passiveIncome,
            !.recipes = [r \in RecipeIds |->
                IF gs.recipes[r].unlocked /\ gs.recipes[r].level > 0
                THEN [gs.recipes[r] EXCEPT !.totalProduction =
                         @ + gs.recipes[r].currentProduction * gs.recipes[r].level]
                ELSE gs.recipes[r]]]
    ELSE gs

\* n consecutive ticks of the game loop on a GameState record (counted off
\* in two halves, each half from the model the other left)
RECURSIVE TickedTimes(_, _)
TickedTimes(gs, n) ==
    IF n = 0 THEN gs
    ELSE IF n = 1 THEN Ticked(gs)
    ELSE LET half == TickedTimes(gs, n \div 2)
         IN IF half.money >= gs.money
            THEN TickedTimes(half, n - n \div 2)
            ELSE half

\* The divisor BakeryGame.initialize applies to getTimeSinceLastSave()
INITIALIZE_DIVISOR == 1000

\* BakeryGame.initialize() on the freshly evaluated GameState gs at time t
GameInitialize(gs, stored, t) ==
    LET savedState == Load(stored)
        timeSinceLastSave == GetTimeSinceLastSave(stored, t)
        started ==
            IF savedState # NoState /\ savedState # Undefined
            THEN LET restored == RestoreState(gs, savedState)
                 IN IF timeSinceLastSave > 0
                    THEN OfflineApplied(restored, timeSinceLastSave, INITIALIZE_DIVISOR)
                    ELSE restored
            ELSE Initialize(gs, t)
    IN [started EXCEPT !.moneyPerSecond = Production(started.autoBakers, started.recipes)]

\* How long the page stays closed before it is opened again, in seconds
AwaySeconds == {0, 1, 1000}

\* The page is closed and, away seconds later, opened again: the modules are
\* evaluated anew (GameState with its defaults, initialized on load) and
\* BakeryGame.initialize() starts the session from the stored slot.
Reload(away) ==
    /\ Invoke("initialize", away)
    /\ now' = now + away
    /\ Becomes(GameInitialize(FreshGameState(now'), slot, now'))
    /\ ret' = Null
    /\ UNCHANGED slot

\* BakeryGame.resetGame(), the confirmation given: clearSave(), then
\* GameState.initialize() on the running model.
ResetGame ==
    /\ Invoke("resetGame", Null)
    /\ slot' = NoSave
    /\ Becomes(Initialize(GameStateRecord, now))
    /\ ret' = Null
    /\ UNCHANGED now

\* SaveManager.load() called on its own
CallLoad ==
    /\ Invoke("load", Null)
    /\ ret' = Load(slot)
    /\ UNCHANGED <<model, slot, now>>

\* SaveManager.getTimeSinceLastSave() called on its own
CallGetTimeSinceLastSave ==
    /\ Invoke("getTimeSinceLastSave", Null)
    /\ ret' = GetTimeSinceLastSave(slot, now)
    /\ UNCHANGED <<model, slot, now>>

\* SaveManager.clearSave()
ClearSave ==
    /\ Invoke("clearSave", Null)
    /\ slot' = NoSave
    /\ ret' = TRUE
    /\ UNCHANGED <<model, now>>

\* SaveManager.exportSave(): the content of the slot as it is, null when the
\* slot is empty
ExportSave ==
    /\ Invoke("exportSave", Null)
    /\ ret' = slot
    /\ UNCHANGED <<model, slot, now>>

\* importSave's validation: JSON.parse does not throw, and neither
\* parsed.state nor parsed.timestamp is falsy (missing, or a timestamp of 0)
ValidSave(text) ==
    /\ ~Malformed(text)
    /\ "state" \in DOMAIN ParseObject(text)
    /\ "timestamp" \in DOMAIN ParseObject(text)
    /\ ParseObject(text).timestamp # 0

\* What an import that stores its parse written out again would store
Rewritten(text) ==
    LET parsed == Parse(text)
    IN <<<<"version", parsed.version>>, <<"timestamp", parsed.timestamp>>,
         <<"state", StringifyObject(parsed.state, SavedFields)>>>>

\* An import that commits the parse written out again, not the text
ImportSaveRewriting(text) ==
    /\ Invoke("importSave", text)
    /\ IF ValidSave(text)
       THEN \E w \in WriteOutcomes :
               /\ slot' = IF w = "slot write throws" THEN slot ELSE Rewritten(text)
               /\ ret' = (w = "stored")
       ELSE slot' = slot /\ ret' = FALSE
    /\ UNCHANGED <<model, now>>

\* SaveManager.importSave(jsonString): a text that does not validate throws
\* before anything is written; a valid one is written to the slot as it is,
\* then the version marker, either write throwing as in save.
ImportSave(text) ==
    /\ Invoke("importSave", text)
    /\ IF ValidSave(text)
       THEN \E w \in WriteOutcomes :
               /\ slot' = IF w = "slot write throws" THEN slot ELSE text
               /\ ret' = (w = "stored")
       ELSE slot' = slot /\ ret' = FALSE
    /\ UNCHANGED <<model, now>>

\* By how many seconds the system clock is set back
SetBackSeconds == {1}

\* Date.now() reads the system clock, which its owner or a time
\* synchronisation can set back: the clock then reads earlier than it did.
ClockSetBack ==
    /\ Invoke("clockSetBack", Null)
    /\ \E back \in SetBackSeconds : now >= back /\ now' = now - back
    /\ ret' = Null
    /\ UNCHANGED <<model, slot>>

\* The texts that come from outside the session: found in the slot when the
\* page opens, or handed to importSave.  ExportedState is the state of a
\* game exported elsewhere at time 1.
ExportedState ==
    StringifyObject([FreshGameState(1) EXCEPT !.money = 500 * Scale,
                                              !.totalMoneyEarned = 600 * Scale,
                                              !.totalBaked = 12],
                    SavedFields)

ExportedText ==
    <<<<"version", CURRENT_VERSION>>, <<"timestamp", 1>>, <<"state", ExportedState>>>>
OtherVersionText ==
    <<<<"version", CURRENT_VERSION + 1>>, <<"timestamp", 1>>, <<"state", ExportedState>>>>
AnnotatedText ==
    <<<<"version", CURRENT_VERSION>>, <<"note", 7>>, <<"timestamp", 1>>,
      <<"state", ExportedState>>, <<"timestamp", 1>>>>
GarbledText == <<<<SyntaxError, 0>>>>
TruncatedText ==
    <<<<"version", CURRENT_VERSION>>, <<"timestamp", 1>>,
      <<"state", SubSeq(ExportedState, 1, 3) \o <<<<SyntaxError, 0>>>>>>>>
NoStateText == <<<<"version", CURRENT_VERSION>>, <<"timestamp", 1>>>>
NoTimestampText == <<<<"version", CURRENT_VERSION>>, <<"state", ExportedState>>>>
ZeroTimestampText ==
    <<<<"version", CURRENT_VERSION>>, <<"timestamp", 0>>, <<"state", ExportedState>>>>

ImportedTexts ==
    {ExportedText, OtherVersionText, AnnotatedText, GarbledText, TruncatedText,
     NoStateText, NoTimestampText, ZeroTimestampText}

FoundInSlot == {NoSave, ExportedText, OtherVersionText, GarbledText, NoStateText}

\* The texts the player pastes into importSaveData
PastedTexts == {ExportedText, GarbledText}

\* BakeryGame.importSaveData(jsonString): importSave, and when it returns
\* true, load and restoreState on the running model.
ImportSaveData(text) ==
    /\ Invoke("importSaveData", text)
    /\ IF ValidSave(text)
       THEN \E w \in WriteOutcomes :
               /\ slot' = IF w = "slot write throws" THEN slot ELSE text
               /\ ret' = (w = "stored")
               /\ IF w = "stored"
                  THEN Becomes(RestoreState(GameStateRecord, Load(text)))
                  ELSE UNCHANGED model
       ELSE UNCHANGED <<model, slot>> /\ ret' = FALSE
    /\ UNCHANGED now

----------------------------------------------------------------------------
(* Formatter, for whole numbers *)

DecimalDigits == <<"0", "1", "2", "3", "4", "5", "6", "7", "8", "9">>

\* The decimal numeral of a whole number n >= 0, as string concatenation
\* writes it
RECURSIVE NumberToString(_)
NumberToString(n) ==
    IF n < 10 THEN DecimalDigits[n + 1]
    ELSE NumberToString(n \div 10) \o DecimalDigits[(n % 10) + 1]

\* The numbers num for which num / threshold lies halfway between two
\* tenths and its double lies below it: 1.15 and 1.45 are
\* 1.149999999999999911... and 1.449999999999999955... in IEEE doubles.
\* (1.05, 1.35 and 99.95 lie above, 1.25 is exact.)
DoubleBelowHalfway(num, threshold) ==
    <<num, threshold>> \in {<<1150, 1000>>, <<1450, 1000>>}

\* (num / threshold).toFixed(1): the tenth nearest to the double, the larger
\* one when the double is exactly halfway
ToFixed1(num, threshold) ==
    LET tenth == threshold \div 10
        q == num \div tenth
        r == num % tenth
        tenths == IF \/ 2 * r > tenth
                     \/ 2 * r = tenth /\ ~DoubleBelowHalfway(num, threshold)
                  THEN q + 1 ELSE q
    IN NumberToString(tenths \div 10) \o "." \o NumberToString(tenths % 10)

\* The suffixes of formatNumber, largest first.  (1e12 with 'T' is beyond
\* TLC's integers and beyond every number followed here.)
Suffixes ==
    <<[threshold |-> 1000000000, suffix |-> "B"],
      [threshold |-> 1000000, suffix |-> "M"],
      [threshold |-> 1000, suffix |-> "K"]>>

\* `scaled > 100 ? Math.floor(scaled) : scaled.toFixed(1)` for
\* scaled = num / threshold
Scaled(num, threshold) ==
    IF \/ num \div threshold > 100
       \/ num \div threshold = 100 /\ num % threshold > 0
    THEN NumberToString(num \div threshold)
    ELSE ToFixed1(num, threshold)

\* Formatter.formatNumber(num) for a whole number num
FormatNumber(num) ==
    LET sign == IF num < 0 THEN "-" ELSE ""
        abs == IF num < 0 THEN -num ELSE num
        found == {i \in 1..Len(Suffixes) : abs >= Suffixes[i].threshold}
    IN IF found = {} THEN sign \o NumberToString(abs)
       ELSE LET first == CHOOSE i \in found : \A j \in found : i <= j
            IN sign \o Scaled(abs, Suffixes[first].threshold) \o Suffixes[first].suffix

\* Formatter.formatCurrency(num)
FormatCurrency(num) == "$" \o FormatNumber(num)

\* The numbers the display formats
FormatInputs ==
    {0, 7, 999, 1000, 1050, 1150, 1234, 1250, 1350, 1450, 1500, 9999, 50000,
     99949, 99950, 100000, 100001, 100500, 999999, 1000000, 1234567, 50000000,
     100000000, 100000001, 999999999, 1000000000, 1234567890, 2147483647,
     -1234, -50000}

CallFormatNumber(num) ==
    /\ Invoke("formatNumber", num)
    /\ ret' = FormatNumber(num)
    /\ UNCHANGED <<model, slot, now>>

CallFormatCurrency(num) ==
    /\ Invoke("formatCurrency", num)
    /\ ret' = FormatCurrency(num)
    /\ UNCHANGED <<model, slot, now>>

----------------------------------------------------------------------------
(* Specifications *)

\* Any sequence of calls of the engine's operations
Next ==
    \/ \E a \in RecipeIds \cup {Null, Unknown} : Bake(a)
    \/ \E id \in RecipeIds \cup {Unknown} : BakeRecipe(id)
    \/ HandleBake
    \/ \E id \in RecipeIds \cup {Unknown} : CallUnlockRecipe(id)
    \/ \E u \in UpgradeIds \cup {Unknown} : PurchaseUpgrade(u)
    \/ \E u \in UpgradeIds : GamePurchaseUpgrade(u)
    \/ \E id \in RecipeIds \cup {Unknown} : UpgradeRecipe(id)
    \/ HireAutoBaker
    \/ RecalculateMoneyPerSecond
    \/ Tick
    \/ \E s \in OfflineSeconds : ApplyOfflineProgress(s[1], s[2])

Spec == Init /\ [][Next]_vars

\* The sessions of the orchestrator: the operations BakeryGame itself runs (the
\* bake button, its two purchase entry points, the tick timer), the saves of
\* its timers and teardown handler, page reloads, resets and imports.
NextLifecycle ==
    \/ HandleBake
    \/ \E u \in UpgradeIds : GamePurchaseUpgrade(u)
    \/ HireAutoBaker
    \/ Tick
    \/ Save
    \/ \E away \in AwaySeconds : Reload(away)
    \/ ResetGame
    \/ \E text \in PastedTexts : ImportSaveData(text)

SpecLifecycle == Init /\ [][NextLifecycle]_vars

\* The sessions of the save manager: the page opens at time 2 on whatever the
\* slot holds, and the operations of SaveManager are called in any order while
\* the game is played and time passes, for MaxStorageCalls invocations.
MaxStorageCalls == 4

InitStorage ==
    /\ now = 2
    /\ slot \in FoundInSlot
    /\ LET gs == GameInitialize(FreshGameState(now), slot, now)
       IN /\ money = gs.money
          /\ totalMoneyEarned = gs.totalMoneyEarned
          /\ moneyPerSecond = gs.moneyPerSecond
          /\ totalBaked = gs.totalBaked
          /\ recipes = gs.recipes
          /\ autoBakers = gs.autoBakers
          /\ autoBakerLevel = gs.autoBakerLevel
          /\ autoBakerCost = gs.autoBakerCost
          /\ upgrades = gs.upgrades
          /\ milestones = gs.milestones
          /\ lastSaveTime = gs.lastSaveTime
          /\ gameStartTime = gs.gameStartTime
    /\ op = [name |-> "initialize", arg |-> 0]
    /\ ret = Null
    /\ calls = MaxCalls - MaxStorageCalls

NextStorage ==
    \/ Save
    \/ CallLoad
    \/ CallGetTimeSinceLastSave
    \/ ClearSave
    \/ ExportSave
    \/ \E text \in ImportedTexts : ImportSave(text)
    \/ HandleBake
    \/ Tick
    \/ ClockSetBack

SpecStorage == InitStorage /\ [][NextStorage]_vars

\* The display formats numbers
NextFormatter ==
    \/ \E num \in FormatInputs : CallFormatNumber(num)
    \/ \E num \in FormatInputs : CallFormatCurrency(num)

SpecFormatter == Init /\ [][NextFormatter]_vars

----------------------------------------------------------------------------
(* Sessions that have gone on for a while *)

\* From such a state the model follows the session for this many invocations.
MaxVeteranCalls == 3

\* The model's variables are those of the GameState record gs, the slot is
\* empty, and the model follows the session from here on.
Resumes(gs) ==
    /\ money = gs.money
    /\ totalMoneyEarned = gs.totalMoneyEarned
    /\ moneyPerSecond = gs.moneyPerSecond
    /\ totalBaked = gs.totalBaked
    /\ recipes = gs.recipes
    /\ autoBakers = gs.autoBakers
    /\ autoBakerLevel = gs.autoBakerLevel
    /\ autoBakerCost = gs.autoBakerCost
    /\ upgrades = gs.upgrades
    /\ milestones = gs.milestones
    /\ lastSaveTime = gs.lastSaveTime
    /\ gameStartTime = gs.gameStartTime
    /\ slot = NoSave
    /\ now = 0
    /\ op = [name |-> "none", arg |-> Null]
    /\ ret = Null
    /\ calls = MaxCalls - MaxVeteranCalls

\* The fresh model after b calls of Recipes.bakeRecipe(gameState, 'cookie'),
\* each of which credits the cookie's production of 1 and no milestone bonus.
AfterBakes(b) ==
    LET earned == b * BaseProduction["cookie"] * Scale IN
    [FreshGameState(0) EXCEPT
        !.money = @ + earned,
        !.totalMoneyEarned = @ + earned,
        !.totalBaked = b,
        !.recipes["cookie"].bakeCount = b,
        !.recipes["cookie"].totalProduction = earned]

\* The fresh model after bake(cookie), hireAutoBaker() and
\* applyOfflineProgress(gameState, 604800): a first baker's week of income.
AfterAWeek ==
    LET g0 == FreshGameState(0)
        p == BaseProduction["cookie"] * Scale
        s == CheckMilestones(g0.money + p, g0.totalMoneyEarned + p, 1, g0.milestones)
        baked == [g0 EXCEPT !.money = s.money,
                            !.totalMoneyEarned = s.totalMoneyEarned,
                            !.milestones = s.milestones,
                            !.totalBaked = 1,
                            !.recipes["cookie"].bakeCount = 1,
                            !.recipes["cookie"].totalProduction = p]
        hired == [baked EXCEPT !.money = @ - baked.autoBakerCost * Scale,
                               !.autoBakers = 1,
                               !.autoBakerLevel = 1,
                               !.autoBakerCost = Inflate(@),
                               !.moneyPerSecond = Production(1, baked.recipes)]
    IN OfflineApplied(hired, MAX_OFFLINE_TIME, 1)

\* What n successive purchases of upgrade u cost, the first at level 0
RECURSIVE PaidForUpgrade(_, _)
PaidForUpgrade(u, n) ==
    IF n = 0 THEN 0
    ELSE PaidForUpgrade(u, n - 1) + CeilPow(BaseCost[u], 11, 10, n - 1)

\* The week's model after n rounds of purchaseUpgrade on each of the three
\* upgrades (an upgrade at its maxLevel is refused and stays there)
AfterUpgradeRounds(n) ==
    LET g == AfterAWeek
        lv == [u \in UpgradeIds |-> Min(n, UpgradeMaxLevel[u])]
    IN [g EXCEPT
           !.money = @ - SumOver(UpgradeIds,
                          [u \in UpgradeIds |-> PaidForUpgrade(u, lv[u])]) * Scale,
           !.upgrades = [u \in UpgradeIds |->
                            [level |-> lv[u],
                             currentCost |-> CeilPow(BaseCost[u], 11, 10, lv[u])]],
           !.recipes = IF n = 0 THEN @
                       ELSE ApplyUpgradeBonus(@, "betterOven", lv["betterOven"])]

\* The cost c after n upgrades of the recipe
RECURSIVE InflateTimes(_, _)
InflateTimes(c, n) == IF n = 0 THEN c ELSE Inflate(InflateTimes(c, n - 1))

\* What n successive upgrades of recipe r cost
RECURSIVE PaidForRecipe(_, _)
PaidForRecipe(r, n) ==
    IF n = 0 THEN 0
    ELSE PaidForRecipe(r, n - 1) + InflateTimes(InitialUpgradeCost[r], n - 1)

\* The week's model after unlockRecipe on every recipe and k rounds of
\* Recipes.upgradeRecipe on each of the five (which leave the cache alone)
AfterRecipeRounds(k) ==
    LET g == AfterAWeek IN
    [g EXCEPT
        !.money = @ - SumOver(RecipeIds,
                       [r \in RecipeIds |-> PaidForRecipe(r, k)]) * Scale,
        !.recipes = [r \in RecipeIds |->
                        [@[r] EXCEPT
                            !.unlocked = TRUE,
                            !.level = k,
                            !.currentProduction = CeilPow(BaseProduction[r], 6, 5, k),
                            !.upgradeCost = InflateTimes(InitialUpgradeCost[r], k)]]]

\* How many cookies the young sessions have baked (money 10, 50 and 100)
Bakes == {0, 40, 90}
\* How many rounds of upgrades the session has purchased
UpgradeRounds == 0..UpgradeMaxLevel["betterOven"]
\* How many rounds of recipe upgrades the session has made, at most
MaxRecipeRounds == 6

InitVeteran ==
    \/ \E b \in Bakes : Resumes(AfterBakes(b))
    \/ \E n \in UpgradeRounds : Resumes(AfterUpgradeRounds(n))
    \/ \E k \in 1..MaxRecipeRounds : Resumes(AfterRecipeRounds(k))

\* The purchases of the engine
NextVeteran ==
    \/ \E u \in UpgradeIds \cup {Unknown} : PurchaseUpgrade(u)
    \/ \E u \in UpgradeIds : GamePurchaseUpgrade(u)
    \/ \E id \in RecipeIds \cup {Unknown} : UpgradeRecipe(id)
    \/ HireAutoBaker

SpecVeteran == InitVeteran /\ [][NextVeteran]_vars

\* BakeryGame.handleBake on a GameState record
HandleBaked(gs) ==
    LET earnings == gs.recipes["cookie"].currentProduction * Scale
        s == CheckMilestones(gs.money + earnings, gs.totalMoneyEarned + earnings,
                             gs.totalBaked + 1, gs.milestones)
        baked == [gs.recipes EXCEPT
                     !["cookie"].bakeCount = @ + 1,
                     !["cookie"].totalProduction = @ + earnings]
    IN [gs EXCEPT !.money = s.money,
                  !.totalMoneyEarned = s.totalMoneyEarned,
                  !.milestones = s.milestones,
                  !.totalBaked = @ + 1,
                  !.recipes = CheckRecipeUnlocks(baked, gs.totalBaked + 1, s.money)]

\* The model gs after n more presses of the bake button (the presses are
\* counted off in two halves, each half from the model the other left)
RECURSIVE Pressed(_, _)
Pressed(gs, n) ==
    IF n = 0 THEN gs
    ELSE IF n = 1 THEN HandleBaked(gs)
    ELSE LET half == Pressed(gs, n \div 2)
         IN IF half.totalBaked = gs.totalBaked + n \div 2
            THEN Pressed(half, n - n \div 2)
            ELSE half

\* The fresh model after b presses of the bake button
AfterPresses(b) == Pressed(FreshGameState(0), b)

\* The model after b presses of the bake button, the hire of a first baker
\* and a catch-up for secs seconds away
AfterAway(b, secs) ==
    LET pressed == AfterPresses(b)
        hired == [pressed EXCEPT !.money = @ - pressed.autoBakerCost * Scale,
                                 !.autoBakers = 1,
                                 !.autoBakerLevel = 1,
                                 !.autoBakerCost = Inflate(@),
                                 !.moneyPerSecond = Production(1, pressed.recipes)]
    IN OfflineApplied(hired, secs, 1)

AfterAnHourAway(b) == AfterAway(b, 3600)

\* How often the bake button has been pressed: one press before the bakes
\* of each unlock rule
Presses == {19, 29, 49, 99}

\* The sessions at the counter: the player has pressed the bake button for a
\* while, or pressed it a few times and come back after an hour, and goes on
\* with the operations of the orchestrator.
InitCounter ==
    \/ \E b \in Presses : Resumes(AfterPresses(b))
    \/ Resumes(AfterAnHourAway(2))
    \/ Resumes(AfterAnHourAway(99))

NextCounter ==
    \/ HandleBake
    \/ \E u \in UpgradeIds : GamePurchaseUpgrade(u)
    \/ HireAutoBaker
    \/ Tick

SpecCounter == InitCounter /\ [][NextCounter]_vars

\* The sessions around the milestones' thresholds: the player has pressed
\* the bake button once, 98 or 99 times, or once and come back to a first
\* baker after three minutes (181 items and 961 earned), and the engine's
\* bakes, ticks, catch-ups and hires follow.
InitMilestones ==
    \/ \E b \in {1, 98, 99} : Resumes(AfterPresses(b))
    \/ Resumes(AfterAway(1, 180))
    \/ Resumes(FreshGameState(0))

NextMilestones ==
    \/ \E a \in RecipeIds \cup {Null} : Bake(a)
    \/ HandleBake
    \/ \E id \in RecipeIds : BakeRecipe(id)
    \/ HireAutoBaker
    \/ Tick
    \/ \E s \in OfflineSeconds : ApplyOfflineProgress(s[1], s[2])

SpecMilestones == InitMilestones /\ [][NextMilestones]_vars

\* The whole seconds of a catch-up that the game loop could have ticked through
WholeSeconds == {1, 7, 60, MAX_OFFLINE_TIME}
\* The longest run of ticks that is counted off tick by tick
MaxTickRun == 60

\* A session resumed after some bakes or after rounds of recipe upgrades,
\* which then upgrades recipes, hires, refreshes the cache, ticks and catches up
InitCatchUp ==
    \/ \E b \in Bakes : Resumes(AfterBakes(b))
    \/ \E k \in 1..2 : Resumes(AfterRecipeRounds(k))

NextCatchUp ==
    \/ \E s \in WholeSeconds : ApplyOfflineProgress(s, 1)
    \/ Tick
    \/ RecalculateMoneyPerSecond
    \/ \E id \in RecipeIds : UpgradeRecipe(id)
    \/ HireAutoBaker

SpecCatchUp == InitCatchUp /\ [][NextCatchUp]_vars

----------------------------------------------------------------------------
(* Properties *)

\* The fields a refused bake has to leave alone
BakeFrame == <<money, totalMoneyEarned, totalBaked, recipes, milestones>>

\* C1: money is never negative, whatever sequence of bake, purchaseUpgrade,
\* upgradeRecipe, hireAutoBaker, tick and applyOfflineProgress calls ran:
\* every debit is preceded by the test that money covers the cost.
C1_MoneyNeverNegative == money >= 0

\* A purchase has just spent the model's last coin.
C1_Witness ==
    /\ op.name \in {"purchaseUpgrade", "upgradeRecipe", "hireAutoBaker"}
    /\ ret = TRUE
    /\ money = 0

\* C2: from one state to the next of a session, neither totalMoneyEarned nor
\* totalBaked decreases.
C2_EarnedAndBakedNeverDecrease ==
    [][totalMoneyEarned' >= totalMoneyEarned /\ totalBaked' >= totalBaked]_vars

\* An offline catch-up has just raised both totals.
C2_Witness ==
    /\ op.name = "applyOfflineProgress"
    /\ ret.moneyGained > 0
    /\ ret.itemsBaked > 0

\* The model that load and restoreState give, on a freshly started GameState,
\* from the slot as it is
Reloaded == RestoreState(FreshGameState(now), Load(slot))

\* C3 as stated: right after save, load and restoreState reproduce every saved
\* field of the model that was saved, lastSaveTime included.
C3_RoundTripExact ==
    (op.name = "save" /\ ret = TRUE) => (Reloaded = GameStateRecord)

\* C3 as amended: right after save, load and restoreState reproduce every
\* saved field of the model that was saved but lastSaveTime, which is the time
\* of the save and not the lastSaveTime the model had.
C3_RoundTripButLastSaveTime ==
    (op.name = "save" /\ ret = TRUE) =>
        (Reloaded = [GameStateRecord EXCEPT !.lastSaveTime = now])

\* A model with progress in every map is saved later than its lastSaveTime.
C3_Witness ==
    /\ op.name = "save"
    /\ ret = TRUE
    /\ lastSaveTime # now
    /\ autoBakers > 0
    /\ milestones["firstBake"]
    /\ recipes["cookie"].bakeCount > 0

\* C4: a session that starts from an existing save with lastSaveTime T, at
\* time N, has money and totalMoneyEarned grown over the saved ones by
\* floor(rate * min((N - T) / 1000, 604800)), with N and T in milliseconds and
\* rate the passive income of the saved model.
C4_OfflineCoversElapsedTime ==
    [][(op'.name = "initialize" /\ slot # NoSave) =>
          LET saved == Load(slot)
              elapsed == (now' * 1000 - saved.lastSaveTime * 1000) \div 1000
              rate == Production(saved.autoBakers, saved.recipes)
              credit == FloorDiv(rate * Min(elapsed, MAX_OFFLINE_TIME), Scale) * Scale
          IN /\ money' = saved.money + credit
             /\ totalMoneyEarned' = saved.totalMoneyEarned + credit]_vars

\* C5: after a completed hireAutoBaker, purchaseUpgrade or upgradeRecipe the
\* cached moneyPerSecond is autoBakers * 5 + the sum over the unlocked recipes
\* with level > 0 of currentProduction * level * 0.1.
C5_CacheFreshAfterChange ==
    (/\ op.name \in {"hireAutoBaker", "purchaseUpgrade", "game.purchaseUpgrade",
                     "upgradeRecipe"}
     /\ ret = TRUE)
        => moneyPerSecond = Production(autoBakers, recipes)

\* Math.ceil(baseProduction * 1.2^level) for the recipe's own level
OwnLevelProduction(r) == CeilPow(BaseProduction[r], 6, 5, recipes[r].level)

\* Math.ceil(baseProduction * 1.05^L) for the level L of the production upgrade
OvenProduction(r) ==
    CeilPow(BaseProduction[r], UpgradeBonus["betterOven"][1],
            UpgradeBonus["betterOven"][2], upgrades["betterOven"].level)

\* C6 as stated: every recipe's currentProduction is
\* ceil(baseProduction * 1.2^level) for its own level, in every reachable state.
C6_ProductionFollowsOwnLevel ==
    \A r \in RecipeIds : recipes[r].currentProduction = OwnLevelProduction(r)

\* C6 as amended: while no production upgrade has been purchased every
\* recipe's currentProduction is ceil(baseProduction * 1.2^level); once one
\* has, it is that or ceil(baseProduction * 1.05^L) for the upgrade's level L,
\* whichever of upgradeRecipe and purchaseUpgrade wrote it last.
C6_ProductionFollowsLastWriter ==
    \A r \in RecipeIds :
        \/ recipes[r].currentProduction = OwnLevelProduction(r)
        \/ /\ upgrades["betterOven"].level > 0
           /\ recipes[r].currentProduction = OvenProduction(r)

\* The oven has been purchased over an upgraded recipe, and one recipe holds
\* the oven's production where its own level gives another.
C6_Witness ==
    /\ upgrades["betterOven"].level > 0
    /\ \E r \in RecipeIds : recipes[r].level > 0
    /\ \E r \in RecipeIds : recipes[r].currentProduction # OwnLevelProduction(r)

\* C7 as stated: after k successful hires autoBakerCost is the closed form
\* ceil(50 * 1.15^k), the ceiling taken once, with k = autoBakers.
C7_CostClosedForm ==
    autoBakerCost = CeilPow(START_AUTO_BAKER_COST, 23, 20, autoBakers)

\* c with the step c -> ceil(c * 1.15) applied n times
RECURSIVE CeilStepwise(_, _)
CeilStepwise(c, n) ==
    IF n = 0 THEN c ELSE (CeilStepwise(c, n - 1) * 115 + 99) \div 100

\* C7 as amended: autoBakers counts the successful hires (it grows by one at
\* each and at nothing else), and after k of them autoBakerCost is 50 with the
\* step c -> ceil(c * 1.15) applied k times, the ceiling taken at every hire.
C7_CostStepwise ==
    /\ [](autoBakerCost = CeilStepwise(START_AUTO_BAKER_COST, autoBakers))
    /\ [][autoBakers' = autoBakers +
             (IF op'.name = "hireAutoBaker" /\ ret' = TRUE THEN 1 ELSE 0)]_vars

\* Three hires: the stepwise cost is 78 where the closed form gives 77.
C7_Witness == autoBakers = 3 /\ autoBakerCost = 78

\* C8 as stated: bake with an absent recipe (null, undefined, or a value that
\* is no recipe of the map) returns false and changes nothing.
C8_AbsentRecipeRefused ==
    [][(op'.name = "bake" /\ op'.arg \in {Null, Unknown}) =>
          (ret' = FALSE /\ UNCHANGED BakeFrame)]_vars

\* C8 as amended: bake with a value that is no recipe of the map returns false
\* and changes nothing; with null or undefined it bakes the cookie instead,
\* as a successful bake of the cookie.
C8_UnknownRefusedNullBakesCookie ==
    [][/\ (op'.name = "bake" /\ op'.arg = Unknown) =>
            (ret' = FALSE /\ UNCHANGED BakeFrame)
       /\ (op'.name = "bake" /\ op'.arg = Null) =>
            /\ ret' = recipes["cookie"].unlocked
            /\ ret' => /\ totalBaked' = totalBaked + 1
                       /\ recipes'["cookie"].bakeCount =
                              recipes["cookie"].bakeCount + 1
                       /\ money' >= money +
                              recipes["cookie"].currentProduction * Scale]_vars

\* After some baking, a bake of something that is no recipe has been refused.
C8_Witness ==
    /\ op.name = "bake"
    /\ op.arg = Unknown
    /\ ret = FALSE
    /\ totalBaked > 0

\* C9: bake on a locked recipe returns false and leaves money,
\* totalMoneyEarned, totalBaked, the recipes' counters and the milestones as
\* they were, in every reachable state (GameState.bake and Recipes.bakeRecipe).
C9_LockedRecipeRefused ==
    [][(/\ op'.name \in {"bake", "bakeRecipe"}
        /\ op'.arg \in RecipeIds
        /\ ~recipes[op'.arg].unlocked) =>
          (ret' = FALSE /\ UNCHANGED BakeFrame)]_vars

\* After some baking, a bake of a recipe that is still locked has been refused.
C9_Witness ==
    /\ op.name = "bake"
    /\ op.arg \in RecipeIds
    /\ ~recipes[op.arg].unlocked
    /\ ret = FALSE
    /\ totalBaked > 0

\* C10: a successful bake of a recipe with currentProduction p adds 1 to
\* totalBaked and to the recipe's bakeCount, p to its totalProduction, and
\* p + 50 * m to money and to totalMoneyEarned, m the number of milestones the
\* call completes; the first bake of the cookie on the fresh model leaves
\* totalBaked = 1, firstBake completed and money = 61.
C10_BakeCredits ==
    [][(op'.name = "bake" /\ ret' = TRUE) =>
          LET r == BakeTarget(op'.arg)
              p == recipes[r].currentProduction
              m == Cardinality({x \in MilestoneIds : milestones'[x] /\ ~milestones[x]})
              credit == (p + MILESTONE_BONUS * m) * Scale
          IN /\ totalBaked' = totalBaked + 1
             /\ recipes'[r].bakeCount = recipes[r].bakeCount + 1
             /\ recipes'[r].totalProduction = recipes[r].totalProduction + p * Scale
             /\ money' = money + credit
             /\ totalMoneyEarned' = totalMoneyEarned + credit
             /\ (calls = 0 /\ op'.arg = "cookie") =>
                    /\ totalBaked' = 1
                    /\ milestones'["firstBake"]
                    /\ money' = 61 * Scale]_vars

\* The first bake of the cookie on the fresh model has returned.
C10_Witness ==
    /\ calls = 1
    /\ op.name = "bake"
    /\ op.arg = "cookie"
    /\ ret = TRUE
    /\ money = 61 * Scale
    /\ totalBaked = 1
    /\ milestones["firstBake"]

\* What the step's operation credits to money and totalMoneyEarned apart from
\* milestone bonuses: the production of a bake, the income of a tick, the
\* lump sum of an offline catch-up.
OrdinaryCredit ==
    CASE op'.name \in {"bake", "handleBake"} /\ ret' = TRUE ->
            recipes[BakeTarget(op'.arg)].currentProduction * Scale
      [] op'.name = "bakeRecipe" /\ ret' = TRUE ->
            recipes[op'.arg].currentProduction * Scale
      [] op'.name = "tick" -> ret'.incomeThisTick
      [] op'.name = "applyOfflineProgress" -> ret'.moneyGained * Scale
      [] OTHER -> 0

\* What the step's operation debits from money: the price of a purchase
Spent ==
    CASE op'.name \in {"purchaseUpgrade", "game.purchaseUpgrade"} /\ ret' = TRUE ->
            upgrades[op'.arg].currentCost * Scale
      [] op'.name = "upgradeRecipe" /\ ret' = TRUE ->
            recipes[op'.arg].upgradeCost * Scale
      [] op'.name = "hireAutoBaker" /\ ret' = TRUE -> autoBakerCost * Scale
      [] OTHER -> 0

\* The milestones the step completes
NewlyCompleted == {m \in MilestoneIds : milestones'[m] /\ ~milestones[m]}

C12_PurchaseDebitsCurrentCost ==
    [][(op'.name \in {"purchaseUpgrade", "game.purchaseUpgrade"} /\ ret' = TRUE) =>
          LET u == op'.arg IN
          /\ money' = money - upgrades[u].currentCost * Scale
          /\ upgrades'[u].level = upgrades[u].level + 1
          /\ money' >= 0]_vars

\* An upgrade has just been purchased for the first time, with money to spare.
C12_Witness ==
    /\ op.name = "purchaseUpgrade"
    /\ ret = TRUE
    /\ upgrades[op.arg].level = 1
    /\ money > 0

\* C13: a call that fails its validation returns false and leaves every field
\* of the model as it was: purchaseUpgrade on an absent upgrade, on one at its
\* maxLevel or with money < currentCost; upgradeRecipe on an absent recipe, on
\* a locked one or with money < upgradeCost; hireAutoBaker with
\* money < autoBakerCost.
C13_RefusalsChangeNothing ==
    [][/\ (/\ op'.name \in {"purchaseUpgrade", "game.purchaseUpgrade"}
           /\ \/ op'.arg \notin UpgradeIds
              \/ upgrades[op'.arg].level = UpgradeMaxLevel[op'.arg]
              \/ money < upgrades[op'.arg].currentCost * Scale)
            => (ret' = FALSE /\ UNCHANGED model)
       /\ (/\ op'.name = "upgradeRecipe"
           /\ \/ op'.arg \notin RecipeIds
              \/ ~recipes[op'.arg].unlocked
              \/ money < recipes[op'.arg].upgradeCost * Scale)
            => (ret' = FALSE /\ UNCHANGED model)
       /\ (op'.name = "hireAutoBaker" /\ money < autoBakerCost * Scale)
            => (ret' = FALSE /\ UNCHANGED model)]_vars

\* An upgrade at its maxLevel, which the money would have paid for, has just
\* been refused.
C13_Witness ==
    /\ op.name = "purchaseUpgrade"
    /\ op.arg \in UpgradeIds
    /\ ret = FALSE
    /\ upgrades[op.arg].level = UpgradeMaxLevel[op.arg]
    /\ money >= upgrades[op.arg].currentCost * Scale

\* ceil(base * (m / 10^d)^n) in exact arithmetic: base * m^n has d * n
\* decimal places
ExactCeil(base, m, d, n) ==
    LET ds == PowDigits(TimesDigits(<<>>, 1, base), m, n)
        places == Min(d * n, Len(ds))
    IN DigitsValue(SubSeq(ds, places + 1, Len(ds)))
           + (IF \E i \in 1..places : ds[i] # 0 THEN 1 ELSE 0)

\* ceil(baseCost * 1.1^level)
ExactCost(u) == ExactCeil(BaseCost[u], 11, 1, upgrades[u].level)

\* C14: in every reachable state every upgrade has 0 <= level <= maxLevel and
\* currentCost = ceil(baseCost * 1.1^level).
C14_LevelAndCost ==
    \A u \in UpgradeIds :
        /\ 0 <= upgrades[u].level
        /\ upgrades[u].level <= UpgradeMaxLevel[u]
        /\ upgrades[u].currentCost = ExactCost(u)

\* C15: a recipe's level counts the successful upgradeRecipe calls on it (it
\* grows by one at each and at nothing else), and a recipe upgraded n times
\* has upgradeCost equal to its initial upgradeCost with the step
\* c -> ceil(c * 1.15) applied n times and, as long as no production upgrade
\* has been purchased, currentProduction = ceil(baseProduction * 1.2^n).
C15_RecipeAfterUpgrades ==
    /\ [](\A r \in RecipeIds :
            /\ recipes[r].upgradeCost =
                   CeilStepwise(InitialUpgradeCost[r], recipes[r].level)
            /\ (upgrades["betterOven"].level = 0) =>
                   recipes[r].currentProduction =
                       ExactCeil(BaseProduction[r], 12, 1, recipes[r].level))
    /\ [][\A r \in RecipeIds :
             recipes'[r].level = recipes[r].level +
                 (IF op'.name = "upgradeRecipe" /\ op'.arg = r /\ ret' = TRUE
                  THEN 1 ELSE 0)]_vars

\* The cake has just been upgraded for the fourth time, no oven purchased:
\* it produces ceil(15 * 2.0736) = 32 and its next upgrade costs 351
\* (200, 230, 265, 305, 351).
C15_Witness ==
    /\ op.name = "upgradeRecipe"
    /\ op.arg = "cake"
    /\ ret = TRUE
    /\ upgrades["betterOven"].level = 0
    /\ recipes["cake"].level = 4
    /\ recipes["cake"].currentProduction = 32
    /\ recipes["cake"].upgradeCost = 351

\* C16: a successful purchase of a production-type upgrade sets the
\* currentProduction of every recipe, locked or unlocked and whatever its own
\* level, to ceil(baseProduction * bonus^L) for the upgrade's new level L
\* (bonus 1.05); from money = 100 on the fresh recipes,
\* purchaseUpgrade('betterOven') succeeds and leaves money = 0,
\* betterOven.level = 1 and the productions ceil(baseProduction * 1.05):
\* 2, 3, 6, 16 and 4.
C16_OvenRewritesEveryProduction ==
    [][(op'.name \in {"purchaseUpgrade", "game.purchaseUpgrade"}
            /\ op'.arg = "betterOven") =>
          /\ (ret' = TRUE) =>
                \A r \in RecipeIds :
                    recipes'[r].currentProduction =
                        ExactCeil(BaseProduction[r], 105, 2,
                                  upgrades'["betterOven"].level)
          /\ (/\ money = 100 * Scale
              /\ upgrades = InitialUpgrades
              /\ \A r \in RecipeIds :
                     /\ recipes[r].level = 0
                     /\ recipes[r].currentProduction = BaseProduction[r]) =>
                /\ ret' = TRUE
                /\ money' = 0
                /\ upgrades'["betterOven"].level = 1
                /\ recipes'["cookie"].currentProduction = 2
                /\ recipes'["brownie"].currentProduction = 3
                /\ recipes'["croissant"].currentProduction = 6
                /\ recipes'["cake"].currentProduction = 16
                /\ recipes'["donut"].currentProduction = 4]_vars

\* With money 100 (and ninety cookies baked for it) the first oven has just
\* been purchased; the locked cake produces 16.
C16_Witness ==
    /\ op.name = "purchaseUpgrade"
    /\ op.arg = "betterOven"
    /\ ret = TRUE
    /\ totalBaked = 90
    /\ money = 0
    /\ upgrades["betterOven"].level = 1
    /\ ~recipes["cake"].unlocked
    /\ recipes["cake"].currentProduction = 16

\* C17: a successful hireAutoBaker debits exactly the autoBakerCost of before
\* the call, adds 1 to autoBakers and 1 to autoBakerLevel and sets
\* autoBakerCost to ceil(previous cost * 1.15); with money = 50 and no baker
\* hired yet it succeeds and leaves money = 0, autoBakers = 1 and
\* autoBakerCost = 58.
C17_HireDebitsAndInflates ==
    [][(op'.name = "hireAutoBaker") =>
          /\ (ret' = TRUE) =>
                /\ money' = money - autoBakerCost * Scale
                /\ autoBakers' = autoBakers + 1
                /\ autoBakerLevel' = autoBakerLevel + 1
                /\ autoBakerCost' = (autoBakerCost * 115 + 99) \div 100
          /\ (/\ money = 50 * Scale
              /\ autoBakers = 0
              /\ autoBakerCost = START_AUTO_BAKER_COST) =>
                /\ ret' = TRUE
                /\ money' = 0
                /\ autoBakers' = 1
                /\ autoBakerCost' = 58]_vars

\* With money 50 (and forty cookies baked for it) the first baker has just
\* been hired.
C17_Witness ==
    /\ op.name = "hireAutoBaker"
    /\ ret = TRUE
    /\ totalBaked = 40
    /\ money = 0
    /\ autoBakers = 1
    /\ autoBakerLevel = 1
    /\ autoBakerCost = 58

\* What a recipe adds to the passive income, in tenths per second
IncomeOf(r) ==
    IF recipes[r].unlocked /\ recipes[r].level > 0
    THEN recipes[r].currentProduction * recipes[r].level ELSE 0

\* C18 as stated: a successful hireAutoBaker leaves the cached moneyPerSecond
\* at the value it had before the call.
C18_HireLeavesCache ==
    [][(op'.name = "hireAutoBaker" /\ ret' = TRUE) =>
          moneyPerSecond' = moneyPerSecond]_vars

\* C18 as amended: a successful hireAutoBaker itself recalculates the cache:
\* when it returns, moneyPerSecond is the new number of bakers times 5 plus
\* the income of the unlocked recipes with level > 0, whatever the cache held
\* before; a refused hire leaves the cache as it was.
C18_HireRecalculatesCache ==
    [][(op'.name = "hireAutoBaker") =>
          IF ret' = TRUE
          THEN moneyPerSecond' =
                   (autoBakers + 1) * 5 * Scale
                       + IncomeOf("cookie") + IncomeOf("brownie")
                       + IncomeOf("croissant") + IncomeOf("cake") + IncomeOf("donut")
          ELSE moneyPerSecond' = moneyPerSecond]_vars

\* A baker has just been hired over an upgraded recipe whose income the cache
\* had not counted: the cache now holds more than the bakers' income.
C18_Witness ==
    /\ op.name = "hireAutoBaker"
    /\ ret = TRUE
    /\ \E r \in RecipeIds : IncomeOf(r) > 0
    /\ moneyPerSecond > autoBakers * 5 * Scale

\* C19: a tick adds exactly the cached moneyPerSecond to money and to
\* totalMoneyEarned, and nothing else (what it adds to the recipes'
\* totalProduction is not credited to money); it leaves the cache, totalBaked,
\* the bakers, the recipes' levels, productions and locks, the upgrades and
\* the milestones as they were, and returns incomeThisTick = moneyPerSecond
\* and totalMoney = the new money.
C19_TickCreditsTheCache ==
    [][(op'.name = "tick") =>
          /\ money' = money + moneyPerSecond
          /\ totalMoneyEarned' = totalMoneyEarned + moneyPerSecond
          /\ UNCHANGED <<moneyPerSecond, totalBaked, autoBakers, autoBakerLevel,
                         autoBakerCost, upgrades, milestones>>
          /\ \A r \in RecipeIds :
                 /\ recipes'[r].level = recipes[r].level
                 /\ recipes'[r].unlocked = recipes[r].unlocked
                 /\ recipes'[r].currentProduction = recipes[r].currentProduction
                 /\ recipes'[r].bakeCount = recipes[r].bakeCount
                 /\ recipes'[r].upgradeCost = recipes[r].upgradeCost
          /\ ret'.incomeThisTick = moneyPerSecond
          /\ ret'.totalMoney = money']_vars

\* A tick has just credited a cache that counts an upgraded recipe next to a
\* baker, and has tracked the recipe's share in its totalProduction.
C19_Witness ==
    /\ op.name = "tick"
    /\ ret.incomeThisTick > autoBakers * 5 * Scale
    /\ autoBakers > 0
    /\ \E r \in RecipeIds : IncomeOf(r) > 0 /\ recipes[r].totalProduction > 0

\* C20: at every tick the totalProduction of every unlocked recipe with
\* level > 0 grows by currentProduction * level * 0.1, also in the states
\* where the cached moneyPerSecond is 0 (right after upgradeRecipe, which
\* does not recalculate).
C20_TickTracksEveryLeveledRecipe ==
    [][(op'.name = "tick") =>
          \A r \in RecipeIds :
              recipes'[r].totalProduction = recipes[r].totalProduction + IncomeOf(r)]_vars

\* C21: applyOfflineProgress with secondsElapsed <= 0 returns
\* {moneyGained: 0, itemsBaked: 0} and leaves every field of the model as it
\* was.
C21_NonPositiveTimeChangesNothing ==
    [][(op'.name = "applyOfflineProgress" /\ op'.arg[1] <= 0) =>
          /\ ret' = [moneyGained |-> 0, itemsBaked |-> 0]
          /\ UNCHANGED model]_vars

\* A catch-up over a negative time has just returned, on a model whose baker
\* would have earned over a positive one.
C21_Witness ==
    /\ op.name = "applyOfflineProgress"
    /\ op.arg[1] < 0
    /\ ret = [moneyGained |-> 0, itemsBaked |-> 0]
    /\ autoBakers > 0
    /\ moneyPerSecond > 0

\* The passive income of the model as it is, in tenths per second:
\* autoBakers * 5 plus the income of the unlocked recipes with level > 0
LiveRate ==
    autoBakers * 5 * Scale
        + IncomeOf("cookie") + IncomeOf("brownie") + IncomeOf("croissant")
        + IncomeOf("cake") + IncomeOf("donut")

\* C22: for s > 0 seconds applyOfflineProgress credits money and
\* totalMoneyEarned with floor(rate * min(s, 604800)) and adds
\* floor(autoBakers * 5 * s / 5) to totalBaked, s uncapped; so for
\* s = 604801 the money credit is that of s = 604800 while the items baked
\* are those of 604801 seconds.
C22_IncomeCappedItemsUncapped ==
    [][(op'.name = "applyOfflineProgress" /\ op'.arg[1] > 0) =>
          LET n == op'.arg[1]
              d == op'.arg[2]
              capped == IF n > 604800 * d THEN 604800 * d ELSE n
              credit == (LiveRate * capped) \div (10 * d)
              items == (autoBakers * 5 * n) \div (5 * d)
          IN /\ money' = money + credit * Scale
             /\ totalMoneyEarned' = totalMoneyEarned + credit * Scale
             /\ totalBaked' = totalBaked + items
             /\ ret' = [moneyGained |-> credit, itemsBaked |-> items]
             /\ (n = 604801 /\ d = 1) =>
                    /\ ret'.moneyGained = (LiveRate * 604800) \div 10
                    /\ ret'.itemsBaked = autoBakers * 604801]_vars

\* A catch-up over one second more than the cap has just returned: a week's
\* income of a baker and an upgraded recipe, and the bakers' items of the
\* 604801 seconds.
C22_Witness ==
    /\ op.name = "applyOfflineProgress"
    /\ op.arg = <<604801, 1>>
    /\ autoBakers > 0
    /\ \E r \in RecipeIds : IncomeOf(r) > 0
    /\ ret.moneyGained = (LiveRate * 604800) \div 10
    /\ ret.itemsBaked = autoBakers * 604801

\* C23: load returns null when the slot is empty and when its content is not
\* JSON; when the content is JSON with a state, load returns that state as it
\* is stored, whatever the stored version: a save of another version is
\* neither turned down nor converted.
C23_LoadNullOrStoredState ==
    (op.name = "load") =>
        /\ (slot = NoSave \/ Malformed(slot)) => ret = NoState
        /\ slot = GarbledText => ret = NoState
        /\ (slot # NoSave /\ ~Malformed(slot) /\ "state" \in DOMAIN ParseObject(slot)) =>
              ret = ParseObject(ParseObject(slot).state)
        /\ slot = OtherVersionText =>
              /\ ret = ParseObject(ExportedState)
              /\ ret.money = 500 * Scale
              /\ ret.totalBaked = 12

C23_Witness ==
    /\ op.name = "load"
    /\ slot = OtherVersionText
    /\ ParseObject(slot).version # CURRENT_VERSION
    /\ ret = ParseObject(ExportedState)

\* C24: importSave(text) returns false and leaves the slot exactly as it was
\* when text is not JSON or has no state or no timestamp; when it returns
\* true the slot holds text itself, member for member, and an exportSave that
\* follows returns that same text.
C24_ImportVerbatimOrNothing ==
    /\ [][(op'.name = "importSave") =>
             /\ (op'.arg \in {GarbledText, TruncatedText, NoStateText, NoTimestampText}) =>
                   (ret' = FALSE /\ slot' = slot)
             /\ (ret' = TRUE) => (slot' = op'.arg)]_vars
    /\ [][(op.name = "importSave" /\ ret = TRUE /\ op'.name = "exportSave") =>
             (ret' = op.arg)]_vars

C24_Witness ==
    /\ op.name = "exportSave"
    /\ slot = AnnotatedText
    /\ ret = AnnotatedText

\* The slot holds a text written by save in this session: the texts from
\* outside all carry a timestamp before the session's start at 2.
WrittenBySave ==
    /\ slot # NoSave
    /\ ~Malformed(slot)
    /\ "timestamp" \in DOMAIN ParseObject(slot)
    /\ ParseObject(slot).timestamp >= 2

\* The lastSaveTime of the state stored in the slot, in seconds
StoredLastSaveTime == ParseObject(ParseObject(slot).state).lastSaveTime

\* C25 as stated: getTimeSinceLastSave returns the seconds from the stored
\* lastSaveTime to now, 0 when the slot is empty or is not JSON, and for a
\* slot written by save a number that is never negative.
C25_ElapsedNeverNegative ==
    (op.name = "getTimeSinceLastSave") =>
        /\ (slot = NoSave \/ slot = GarbledText) => ret = 0
        /\ (slot \in {ExportedText, OtherVersionText, AnnotatedText} \/ WrittenBySave) =>
              ret = now - StoredLastSaveTime
        /\ WrittenBySave => (ret \in Int /\ ret >= 0)

\* C25 as amended: getTimeSinceLastSave returns the seconds from the stored
\* lastSaveTime to now, 0 when the slot is empty or is not JSON, and for a
\* slot written by save always a number, which is negative when, and only
\* when, the clock reads earlier than it did at that save.
C25_ElapsedSignedSeconds ==
    (op.name = "getTimeSinceLastSave") =>
        /\ (slot = NoSave \/ slot = GarbledText) => ret = 0
        /\ (slot \in {ExportedText, OtherVersionText, AnnotatedText} \/ WrittenBySave) =>
              ret = now - StoredLastSaveTime
        /\ WrittenBySave => (ret \in Int /\ (ret < 0 <=> now < StoredLastSaveTime))

C25_Witness ==
    /\ op.name = "getTimeSinceLastSave"
    /\ WrittenBySave
    /\ now > StoredLastSaveTime
    /\ ret = now - StoredLastSaveTime

\* The unlock thresholds as the documentation lists them
BakesNeeded == [brownie |-> 20, donut |-> 30, croissant |-> 50, cake |-> 100]
MoneyNeeded == [brownie |-> 50, donut |-> 75, croissant |-> 150, cake |-> 500]

ThresholdsMet(r, b, m) == b >= BakesNeeded[r] /\ m >= MoneyNeeded[r] * Scale

\* C26: a recipe goes from locked to unlocked in the orchestrator's sessions
\* only at a successful bake that leaves totalBaked and money at or above the
\* recipe's thresholds (brownie 20 and 50, donut 30 and 75, croissant 50 and
\* 150, cake 100 and 500); and after every successful bake no recipe is left
\* locked whose thresholds are met.
C26_UnlockExactlyAtThresholds ==
    /\ [][\A r \in RecipeIds \ {"cookie"} :
             (~recipes[r].unlocked /\ recipes'[r].unlocked) =>
                 /\ op'.name = "handleBake"
                 /\ ret' = TRUE
                 /\ ThresholdsMet(r, totalBaked', money')]_vars
    /\ [][(op'.name = "handleBake" /\ ret' = TRUE) =>
             \A r \in RecipeIds \ {"cookie"} :
                 ThresholdsMet(r, totalBaked', money') => recipes'[r].unlocked]_vars

C26_Witness ==
    /\ op.name = "handleBake"
    /\ ret = TRUE
    /\ totalBaked = 20
    /\ recipes["brownie"].unlocked
    /\ ~recipes["donut"].unlocked
    /\ money >= 75 * Scale

\* C27: formatCurrency(50000) returns "$50K" and formatNumber(1234567)
\* returns "1.2M", as the documentation's examples have it.
C27_DocumentedExamples ==
    /\ (op.name = "formatCurrency" /\ op.arg = 50000) => ret = "$50K"
    /\ (op.name = "formatNumber" /\ op.arg = 1234567) => ret = "1.2M"

\* The slot holds the snapshot of the model as it is now, between two
\* operations: every saved field with the model's value, stamped with the
\* time of the save
HoldsSnapshot ==
    /\ slot # NoSave
    /\ ~Malformed(slot)
    /\ Parse(slot).version = CURRENT_VERSION
    /\ Parse(slot).timestamp = now
    /\ \A k \in DOMAIN GameStateRecord :
          Parse(slot).state[k] = IF k = "lastSaveTime" THEN now ELSE GameStateRecord[k]

\* C28 as stated: with ticks, saves and the user's operations run as atomic
\* callbacks in any order, a save that returns true leaves in the slot the
\* snapshot of the model as it stands between two operations, and the slot
\* always holds the snapshot of the most recent successful save: nothing but
\* a successful save changes it.
C28_SlotFollowsSuccessfulSaves ==
    /\ [][(op'.name = "save" /\ ret' = TRUE) => (UNCHANGED model /\ HoldsSnapshot')]_vars
    /\ [][~(op'.name = "save" /\ ret' = TRUE) => slot' = slot]_vars

\* C28 as amended: a save never changes the model and leaves in the slot
\* either the snapshot of the model as it stands between two operations or,
\* when it returns false, possibly what the slot held (a save that returns
\* true always leaves the snapshot; one that returns false may have written
\* it too); a reset empties the slot; an import leaves the slot as it was or
\* holding the imported text; no other operation changes the slot.
C28_SlotFollowsWrites ==
    /\ [][(op'.name = "save") =>
             /\ UNCHANGED model
             /\ IF ret' = TRUE THEN HoldsSnapshot' ELSE (slot' = slot \/ HoldsSnapshot')]_vars
    /\ [][(op'.name = "resetGame") => slot' = NoSave]_vars
    /\ [][(op'.name = "importSaveData") => (slot' = slot \/ slot' = op'.arg)]_vars
    /\ [][(op'.name \notin {"save", "resetGame", "importSaveData"}) => slot' = slot]_vars

C28_Witness ==
    /\ op.name = "save"
    /\ ret = TRUE
    /\ HoldsSnapshot
    /\ totalBaked > 0
    /\ autoBakers > 0
    /\ now > 0

\* C29: after resetGame the model is that of a new game whatever preceded:
\* money 10, totalMoneyEarned 10, totalBaked 0, no bakers at level 0 with the
\* next one at 50, moneyPerSecond 0, no milestone completed, only the cookie
\* unlocked, every recipe and upgrade at level 0.
C29_ResetGivesNewGame ==
    (op.name = "resetGame") =>
        /\ money = 10 * Scale
        /\ totalMoneyEarned = 10 * Scale
        /\ totalBaked = 0
        /\ autoBakers = 0
        /\ autoBakerLevel = 0
        /\ autoBakerCost = 50
        /\ moneyPerSecond = 0
        /\ \A m \in MilestoneIds : ~milestones[m]
        /\ \A r \in RecipeIds : recipes[r].unlocked <=> (r = "cookie")
        /\ \A r \in RecipeIds : recipes[r].level = 0
        /\ \A u \in UpgradeIds : upgrades[u].level = 0

\* C30: applyOfflineProgress changes nothing but money, totalMoneyEarned and
\* totalBaked, and money and totalMoneyEarned by exactly the moneyGained it
\* reports: no milestone is completed and no bonus paid even when the credit
\* takes totalBaked or totalMoneyEarned across a milestone's threshold, no
\* recipe is unlocked, and moneyPerSecond, recipes and upgrades stay as
\* they were.
C30_OfflineFrame ==
    [][(op'.name = "applyOfflineProgress") =>
          /\ UNCHANGED <<moneyPerSecond, recipes, upgrades, milestones, autoBakers,
                         autoBakerLevel, autoBakerCost, lastSaveTime, gameStartTime>>
          /\ money' - money = ret'.moneyGained * Scale
          /\ totalMoneyEarned' - totalMoneyEarned = ret'.moneyGained * Scale
          /\ totalBaked' - totalBaked = ret'.itemsBaked]_vars

C30_Witness ==
    /\ op.name = "applyOfflineProgress"
    /\ ret.moneyGained > 0
    /\ totalMoneyEarned - ret.moneyGained * Scale < 1000 * Scale
    /\ totalMoneyEarned >= 1000 * Scale
    /\ ~milestones["thousandDollars"]
    /\ totalBaked - ret.itemsBaked < 100
    /\ totalBaked >= 100
    /\ ~milestones["hundredBakes"]
    /\ money >= 500 * Scale
    /\ \A r \in RecipeIds \ {"cookie"} : ~recipes[r].unlocked

\* The upgrades whose type is capacity or reputation
InertUpgrades == {"moreShelves", "marketingCampaign"}

\* C31: a successful purchase of moreShelves or marketingCampaign takes the
\* upgrade's cost from money, raises that upgrade's level by one and renews
\* its currentCost, and changes nothing else: every recipe (its
\* currentProduction with it), the other upgrades, moneyPerSecond and all
\* other fields stay as they were.  (The orchestrator's entry point runs
\* recalculateMoneyPerSecond after the purchase: the cache then holds what the
\* unchanged bakers and recipes produce.)
C31_InertUpgradesChangeNothingElse ==
    [][(/\ op'.name \in {"purchaseUpgrade", "game.purchaseUpgrade"}
        /\ op'.arg \in InertUpgrades
        /\ ret' = TRUE) =>
          LET u == op'.arg IN
          /\ money' = money - upgrades[u].currentCost * Scale
          /\ upgrades'[u].level = upgrades[u].level + 1
          /\ upgrades'[u].currentCost > upgrades[u].currentCost
          /\ \A v \in UpgradeIds \ {u} : upgrades'[v] = upgrades[v]
          /\ \A r \in RecipeIds : recipes'[r].currentProduction = recipes[r].currentProduction
          /\ UNCHANGED <<recipes, totalMoneyEarned, totalBaked, autoBakers, autoBakerLevel,
                         autoBakerCost, milestones, lastSaveTime, gameStartTime>>
          /\ IF op'.name = "purchaseUpgrade"
             THEN moneyPerSecond' = moneyPerSecond
             ELSE moneyPerSecond' = LiveRate']_vars

C31_Witness ==
    /\ op.name = "purchaseUpgrade"
    /\ op.arg = "marketingCampaign"
    /\ ret = TRUE
    /\ upgrades["marketingCampaign"].level = 1
    /\ moneyPerSecond > 0
    /\ \E r \in RecipeIds : recipes[r].level > 0

\* C32: money never exceeds totalMoneyEarned; whatever raises money (a bake
\* with its milestone bonuses, a tick, an offline credit) raises
\* totalMoneyEarned by the same amount, and whatever lowers money (a
\* purchase, a recipe upgrade, a hire) leaves totalMoneyEarned as it was.
C32_MoneyWithinEarned ==
    /\ [](money <= totalMoneyEarned)
    /\ [][/\ (money' > money) => (totalMoneyEarned' - totalMoneyEarned = money' - money)
          /\ (money' < money) => (totalMoneyEarned' = totalMoneyEarned)
          /\ (money' = money) => (totalMoneyEarned' = totalMoneyEarned)]_vars

C32_Witness ==
    /\ op.name = "applyOfflineProgress"
    /\ ret.moneyGained > 0
    /\ autoBakers > 0
    /\ \E r \in RecipeIds : recipes[r].level > 0
    /\ milestones["firstBake"]
    /\ money < totalMoneyEarned
    /\ money > 1000 * Scale

\* C33: in the state a successful bake returns in, firstBake is completed
\* exactly when totalBaked >= 1, hundredBakes exactly when totalBaked >= 100
\* and thousandDollars exactly when totalMoneyEarned >= 1000, the bonuses of
\* that same call counted in; a tick and an offline catch-up leave every
\* milestone as it was.
C33_MilestonesMatchThresholdsAfterBake ==
    /\ []((op.name \in {"bake", "handleBake"} /\ ret = TRUE) =>
             /\ milestones["firstBake"] <=> (totalBaked >= 1)
             /\ milestones["hundredBakes"] <=> (totalBaked >= 100)
             /\ milestones["thousandDollars"] <=> (totalMoneyEarned >= 1000 * Scale))
    /\ [][(op'.name \in {"tick", "applyOfflineProgress"}) => milestones' = milestones]_vars

\* A bake has completed hundredBakes and, on the strength of that bonus
\* alone, thousandDollars in the same call.
C33_Witness ==
    /\ op.name = "bake"
    /\ ret = TRUE
    /\ calls = MaxCalls - MaxVeteranCalls + 1
    /\ milestones["hundredBakes"]
    /\ milestones["thousandDollars"]
    /\ totalMoneyEarned - 2 * MILESTONE_BONUS * Scale < 1000 * Scale

\* C34: the allRecipesUnlocked milestone is incomplete in every reachable
\* state, the states with all five recipes unlocked included, and no step
\* pays a bonus for it: a step that completes no threshold milestone credits
\* no bonus at all.
C34_MasterBakerNeverCompleted ==
    /\ [](~milestones["allRecipesUnlocked"])
    /\ [][(/\ op'.name = "bake" /\ ret' = TRUE
           /\ \A r \in RecipeIds : recipes[r].unlocked
           /\ \A m \in MilestoneIds : milestones'[m] = milestones[m]) =>
             money' - money = recipes[BakeTarget(op'.arg)].currentProduction * Scale]_vars

C34_Witness ==
    /\ op.name = "bake"
    /\ ret = TRUE
    /\ \A r \in RecipeIds : recipes[r].unlocked
    /\ \E r \in RecipeIds \ {"cookie"} : recipes[r].bakeCount > 0
    /\ ~milestones["allRecipesUnlocked"]
    /\ milestones["firstBake"]

====
